---- MODULE Spec2Model ----
(***************************************************************************)
(* Verification model of fusil_cereggii_plugin: the colliding-key finder   *)
(* (samples/tricky_colliding_keys.py) and the concurrent stress scenarios  *)
(* with their thread orchestration (samples/tricky_concurrency_hell.py and *)
(* the scenario modules beside it), the scenario runner of the plugin      *)
(* (__init__.py), the adversarial key classes                              *)
(* (samples/tricky_atomicdict.py), the subclass factory and its catalog    *)
(* (samples/tricky_weird_cereggii.py), the stale-handle test               *)
(* (samples/tricky_threadhandle.py), the aggregator                        *)
(* (tricky_cereggii_aggregator.py), the stateful, synergy and utility      *)
(* scenarios, the "hell" scenarios, the build of the tricky_hashable_keys  *)
(* catalog and the thread churn test.  Each part has its own specification *)
(* over the shared variables; the others' variables stay at their idle     *)
(* values.                                                                 *)
(*                                                                         *)
(* The library under test (cereggii) is an opaque subject.  Its hash       *)
(* function is one member of a family drawn in Init; its atomic objects    *)
(* are either sound (every operation takes effect atomically) or faulty    *)
(* (an update may be lost), because the scenarios exist to detect the      *)
(* second case.  TLC integers are 32 bits wide, so the 64-bit hash word is *)
(* scaled down to HashBits bits and the 2**24 search ceiling to            *)
(* SearchCeiling candidates.                                               *)
(***************************************************************************)
EXTENDS Integers, Sequences, FiniteSets, TLC

\* ---------------------------------------------------------------- bounds
HashBits == 3
SearchCeiling == 6
MaxBuckets == 2
MaxQuota == 2
MaxThreads == 2
MaxOps == 2
PrepopPerIterThread == 1
MaxChaosSets == 1
MaxListLen == 2
MaxItemsPerReduce == 1
MaxScenarioNames == 2
MaxKeyObjects == 2
MaxHashCalls == 3

VARIABLES
    \* generate_colliding_keys
    dummy_dict,            \* "AtomicDict" | "None": the module-level _DUMMY_DICT
    hashMul, hashAdd,      \* the subject's hash function (see Rehash)
    log_size, num_buckets_to_fill, keys_per_bucket,
    kpc,                   \* "idle" | "loop" | "returned" | "raised"
    i,                     \* the loop variable: the candidate examined next
    results,               \* bucket -> sequence of keys (the defaultdict)
    filled_buckets,        \* set of buckets that received a key
    examined,              \* number of candidates whose bucket was computed
    broke,                 \* the loop was left through break
    exhausted_warning      \* the for-else warning was printed

keysVars == <<dummy_dict, hashMul, hashAdd, log_size, num_buckets_to_fill,
              keys_per_bucket, kpc, i, results, filled_buckets, examined,
              broke, exhausted_warning>>

VARIABLES
    \* the scenario functions and their thread orchestration
    scenario,              \* which scenario function is called
    subject,               \* "sound" | "faulty": the library under test
    deps_met,              \* _synergy_dependencies_met and the sample module
    num_threads,           \* num_threads (all worker threads of the scenario)
    ops_per_thread,        \* ops_per_thread / keys_per_thread / num_items /
                           \* num_ops_per_thread / num_operations
    num_iter_threads,      \* fast_iter_vs_mutation_race: iterator threads
    mainPc,                \* position of the thread that called the scenario
    started,               \* threads started so far by the start loop
    joined,                \* threads the join loop is done with
    loop_i,                \* loop variable of a loop run by the main thread
    wpc,                   \* worker -> "created" | "running" | "draining" |
                           \* "done" | "died" (uncaught exception) | "hung"
    wops,                  \* worker -> iterations of its for loop completed,
                           \* or its position in the body of a while loop
    counter,               \* the shared AtomicInt64
    d,                     \* the shared AtomicDict: key -> value
    ref,                   \* the shared AtomicRef
    key_counter,           \* chaos worker -> its local key_counter
    stop_event,            \* threading.Event shared with looping workers
    errors,                \* the scenario's errors list
    timed_out,             \* workers whose join(timeout=...) expired
    unexpected_caught,     \* a worker printed "ERROR ... unexpected exception"
    actual, expected,      \* the values compared after the join
    warned,                \* the WARNING was printed
    ret,                   \* "unset" | "True" | "False": the return value
    num_reduce_threads,    \* scenario_latch_decremented_by_reduce: the first
                           \* num_reduce_threads workers run reduce_worker
    counts_below_zero,     \* whether the subject's CountDownLatch counts on
                           \* below zero or refuses a decrement at zero
    can_start,             \* race_condition_ref_vs_gc: the start gate (Event)
    latch,                 \* the CountDownLatch's count
    drain,                 \* reduce worker -> decrements left in the drain
                           \* loop it runs after its reduce failed
    raised_exc             \* the exception that left the scenario function

latchVars == <<latch, drain>>

scnVars == <<scenario, subject, deps_met, num_threads, ops_per_thread,
             num_iter_threads, mainPc, started, joined, loop_i, wpc, wops,
             counter, d, ref, key_counter, stop_event, errors, timed_out,
             unexpected_caught, actual, expected, warned, ret,
             num_reduce_threads, counts_below_zero, can_start, latchVars,
             raised_exc>>

\* The generated scenario-mode script (setup_scenario_mode_script).
VARIABLES
    run_pc,                \* "idle" | "names" | "select" | "try" | "collect" |
                           \* "exited" | "crashed" (uncaught exception) |
                           \* "hung" (a scenario call that never returns)
    all_scenario_names,    \* len(_all_scenario_names)
    run_i,                 \* the loop variable i
    attempted,             \* selections made by random.choice
    completed,             \* "--- Scenario ... completed. ---" lines
    failed,                \* "--- Scenario ... FAILED ---" lines
    not_found,             \* "ERROR: Could not find function" lines
    exit_status,           \* the script's exit status, -1 while it runs
    call_result            \* what the current scenario call returned

runVars == <<run_pc, all_scenario_names, run_i, attempted, completed, failed,
             not_found, exit_status, call_result>>

\* The hashable-key classes of tricky_atomicdict and a map keyed by them.
VARIABLES
    unstable_hash_counter, \* the next value of _unstable_hash_counter
    unstable,              \* UnstableHash instance -> its _initial_hash
    raisers,               \* ExceptionRaiser instances constructed
    hash_log,              \* the values returned by the calls of
                           \* UnstableHash.__hash__, in call order
    unequal_made,          \* AlwaysUnequalConstantHash instances constructed
    collision_dict,        \* the keys of the map they are inserted into
    inserted               \* the instances that were used as key in an insert

objVars == <<unstable_hash_counter, unstable, raisers, hash_log, unequal_made,
             collision_dict, inserted>>

\* create_weird_subclass and a call on an instance of the class it returns.
VARIABLES
    weird_pc,              \* "idle" | "start" | "created" | "called"
    base_class,            \* the base_class argument
    method_name,           \* the method_name argument
    behavior_name,         \* names the behavior_func argument
    new_class,             \* the namespace of the class made by type():
                           \* attribute name -> what it is bound to
    invoked,               \* the operation last invoked on an instance, with
                           \* its arguments
    result                 \* what that invocation gave

weirdVars == <<weird_pc, base_class, method_name, behavior_name, new_class,
               invoked, result>>

VARIABLES
    \* super_caller_abuse(method_name, self, *args, **kwargs)
    sca_pc,                \* "idle" | "start" | "call" | "returned" |
                           \* "propagated"
    sca_base,              \* the base class of type(self)
    sca_method_name,       \* method_name
    sca_args,              \* args
    super_method,          \* "unset" | "callable" | "None"
    super_calls,           \* the argument lists super_method was called with
    sca_return,            \* the value returned
    sca_raised             \* the exception that left the function

abuseVars == <<sca_pc, sca_base, sca_method_name, sca_args, super_method,
               super_calls, sca_return, sca_raised>>

VARIABLES
    \* the catalog build of tricky_weird_cereggii
    cat_pc,                \* "idle" | "loop" | "done"
    visited,               \* the (base, method, behavior) triples the loops
                           \* have been through
    could_not_instantiate, \* the triples whose instantiation raised
    tricky_weird_cereggii_objects   \* instance name -> the triple of its class

catVars == <<cat_pc, visited, could_not_instantiate,
             tricky_weird_cereggii_objects>>

VARIABLES
    \* stale_handle_lifecycle_test
    stale_pc,              \* the main thread: "idle" | "start_reaper" |
                           \* "start_user" | "join_reaper" | "join_user" |
                           \* "verify" | "returned" | "raised"
    reaper_pc,             \* "created" | "del" | "sleep" | "collect" | "set" |
                           \* "done"
    user_pc,               \* "created" | "wait" | "access" | "handler" |
                           \* "done"
    reaper_finished,       \* the Event
    wait_expired,          \* reaper_finished.wait(timeout=2.0) ran out
    target_collected,      \* gc.collect() has run after del target_object
    access,                \* what len(handle) did: "none" | "value" | the
                           \* exception it raised
    user_exception,        \* the list of that name
    stale_raised           \* the exception the test raised

staleVars == <<stale_pc, reaper_pc, user_pc, reaper_finished, wait_expired,
               target_collected, access, user_exception, stale_raised>>

VARIABLES
    \* tricky_cereggii_aggregator and the argument generators of register()
    agg_pc,                \* "idle" | "snippets" | "names" | "done"
    agg_i,                 \* the place of the loop in _MODULE_NAMES, then in
                           \* the exports of _EXPORT_MAP
    tricky_cereggii_code_snippets,   \* f"{name}_code" -> "source" | "None"
    name_lists,            \* the *_names lists, by name
    var_names,             \* colliding_key_sets_name and its like
    retrieved,             \* what became of each export: "ok" | "not_a_dict" |
                           \* "import_error" | "no_attribute", with the keys
                           \* of the exported dict
    agg_log,               \* the exports logged as failed
    gen_result             \* the last argument generator called and the list
                           \* it returned

aggVars == <<agg_pc, agg_i, tricky_cereggii_code_snippets, name_lists,
             var_names, retrieved, agg_log, gen_result>>

VARIABLES
    \* tricky_stateful_scenarios: populate_modules and
    \* scenario_hammer_colliding_bucket
    hcb_pc,                \* "idle" | "populate" | "call" | "key_set" |
                           \* "returned" | "raised"
    pop_i,                 \* the place of populate_modules in the names
    modules,               \* _MODULES: name -> the object __import__ returned
    colliding_key_sets,    \* tricky_colliding_keys.colliding_key_sets
    key_set,               \* the local of that name
    map_operations,        \* the number of operations done on the AtomicDict
    hammer_d,              \* the AtomicDict d of the scenario: key -> value
    deleted_set,           \* the local of that name
    hammer_errors,         \* ERROR lines printed by the verification pass
    hcb_return,            \* the value returned
    hcb_raised             \* the exception that left the scenario

hcbVars == <<hcb_pc, pop_i, modules, colliding_key_sets, key_set,
             map_operations, hammer_d, deleted_set, hammer_errors, hcb_return,
             hcb_raised>>

VARIABLES
    \* a second call of generate_colliding_keys with the arguments of the first
    call_no,               \* 0 while idle, else the number of the call
    first_return           \* how the first call ended and what it returned

againVars == <<call_no, first_return>>

VARIABLES
    \* tricky_synergy_scenarios: scenario_concurrent_reduce_with_failures
    rwf_pc,                \* "idle" | "call" | "start" | "join" | "verify" |
                           \* "returned" | "raised"
    num_success_threads,
    num_failure_threads,
    num_items_per_success_thread,
    has_malicious_iterables, \* the dependency check of the scenario passes
    reduce_subject,        \* "sound" | "faulty": how AtomicDict reduces
    atomic_dict,           \* the AtomicDict: key -> value
    yield_count,           \* of the one pooled IterableRaiser
    rwf_started,           \* threads started by start_and_join
    rwf_wpc,               \* worker -> "created" | "reduce_sum" | "write" |
                           \* "next" | "yield" | "done"
    rwf_read,              \* worker -> the value a faulty reduce_sum read
    rwf_return,            \* "unset" | "True" | "False"
    rwf_raised             \* "none" | "AssertionError"

rwfVars == <<rwf_pc, num_success_threads, num_failure_threads,
             num_items_per_success_thread, has_malicious_iterables,
             reduce_subject, atomic_dict, yield_count, rwf_started, rwf_wpc,
             rwf_read, rwf_return, rwf_raised>>

VARIABLES
    \* tricky_python_utils_scenarios: scenario_poison_countdownlatch
    pcl_pc,                \* "idle" | "call" | "loop" | "start" | "join" |
                           \* "returned"
    tricky_ints_for_latch, \* _TRICKY_INTS_FOR_LATCH
    num_waiters,
    num_decrementers,
    poison_i,              \* the place of the for loop in the list
    poison_latch,          \* the count of the latch made from the object
    pcl_started,           \* threads started by start_and_join
    pcl_wpc,               \* worker -> "created" | "wait" | "decrement" |
                           \* "done"
    all_survived,
    pcl_return             \* "unset" | "True" | "False"

pclVars == <<pcl_pc, tricky_ints_for_latch, num_waiters, num_decrementers,
             poison_i, poison_latch, pcl_started, pcl_wpc, all_survived,
             pcl_return>>

VARIABLES
    \* tricky_stateful_scenarios: scenario_random_ops
    ro_pc,                 \* "idle" | "loop" | "returned" | "raised"
    num_steps,
    step,                  \* iterations of the for loop begun so far
    rand_d,                \* the keys of the AtomicDict d
    model,                 \* the keys of the standard dict
    ro_subject,            \* "sound" | "faulty": how the AtomicDict behaves
    lens,                  \* <<len(d), len(model)>> found after each step
    ro_return,             \* "unset" | "True" | "False"
    ro_raised              \* the exception that left the scenario

randVars == <<ro_pc, num_steps, step, rand_d, model, ro_subject, lens,
              ro_return, ro_raised>>

VARIABLES
    \* scenario_numeric_hell, scenario_callback_hell,
    \* scenario_complex_object_lifecycle_hell and scenario_proxy_hell
    hell_pc,               \* "idle" | "call" | "start" | "join" | "returned" |
                           \* "raised"
    hell_scenario,
    imports_ok,            \* the optional imports of the module succeeded
    handle_objects,        \* _TRICKY_OBJECTS_FOR_HANDLE
    hell_num_threads,
    num_ops_per_thread,
    pool_created,          \* the scenario made its subject instances
    hell_started,          \* threads started by start_and_join
    hell_wpc,              \* worker -> "created" | "running" | "done" | "died"
    iterations,            \* worker -> iterations of its for loop begun
    ops_attempted,         \* worker -> operations attempted inside the try
    last_outcome,          \* worker -> how its latest iteration ended
    hell_return,           \* "unset" | "True" | "False"
    hell_raised            \* the exception that left the scenario

hellVars == <<hell_pc, hell_scenario, imports_ok, handle_objects,
              hell_num_threads, num_ops_per_thread, pool_created,
              hell_started, hell_wpc, iterations, ops_attempted,
              last_outcome, hell_return, hell_raised>>

VARIABLES
    \* the build of the tricky_hashable_keys catalog (tricky_atomicdict.py)
    thk_pc,                \* "idle" | the loop the build is in | "done"
    thk_i,                 \* iterations of that loop already run
    has_deps,              \* _HAS_DEPS
    tricky_obj_names,      \* names in tricky_objects.__dict__
    tricky_hashable_keys,  \* the catalog: name -> object
    registered,            \* the objects the build has stored so far
    made                   \* objects constructed so far

thkVars == <<thk_pc, thk_i, has_deps, tricky_obj_names, tricky_hashable_keys,
             registered, made>>

VARIABLES
    \* thread_churn_test (tricky_concurrency_hell.py)
    churn_pc,              \* "idle" | "loop" | "start" | "join" | "returned"
    num_cycles,
    num_threads_per_cycle,
    churn_i,               \* the loop variable i: cycles completed
    churn_d,               \* the map bound to d: its number, 0 when unbound
    churn_started,         \* threads of this cycle started so far
    churn_wpc,             \* <<cycle, thread_id>> -> the worker's position
    map_users,             \* map number -> cycles whose workers used it
    churn_return           \* "unset" | "True"

churnVars == <<churn_pc, num_cycles, num_threads_per_cycle, churn_i, churn_d,
               churn_started, churn_wpc, map_users, churn_return>>

\* what each part of the model leaves alone
laterVars == <<abuseVars, catVars, staleVars, aggVars, hcbVars, againVars,
               rwfVars, pclVars, randVars, hellVars, thkVars, churnVars>>

earlierVars == <<keysVars, scnVars, runVars, objVars, weirdVars>>

nonScnVars == <<keysVars, runVars, objVars, weirdVars, laterVars>>

nonKeysVars == <<scnVars, runVars, objVars, weirdVars, laterVars>>

nonRunVars == <<keysVars, scnVars, objVars, weirdVars, laterVars>>

nonObjVars == <<keysVars, scnVars, runVars, weirdVars, laterVars>>

nonWeirdVars == <<keysVars, scnVars, runVars, objVars, laterVars>>

nonAbuseVars == <<earlierVars, catVars, staleVars, aggVars, hcbVars,
                  againVars, rwfVars, pclVars, randVars, hellVars, thkVars,
                  churnVars>>

nonCatVars == <<earlierVars, abuseVars, staleVars, aggVars, hcbVars,
                againVars, rwfVars, pclVars, randVars, hellVars, thkVars,
                churnVars>>

nonStaleVars == <<earlierVars, abuseVars, catVars, aggVars, hcbVars,
                  againVars, rwfVars, pclVars, randVars, hellVars, thkVars,
                  churnVars>>

nonAggVars == <<earlierVars, abuseVars, catVars, staleVars, hcbVars,
                againVars, rwfVars, pclVars, randVars, hellVars, thkVars,
                churnVars>>

nonHcbVars == <<earlierVars, abuseVars, catVars, staleVars, aggVars,
                againVars, rwfVars, pclVars, randVars, hellVars, thkVars,
                churnVars>>

nonAgainVars == <<earlierVars, abuseVars, catVars, staleVars, aggVars,
                  hcbVars, rwfVars, pclVars, randVars, hellVars, thkVars,
                  churnVars>>

nonRwfVars == <<earlierVars, abuseVars, catVars, staleVars, aggVars, hcbVars,
                againVars, pclVars, randVars, hellVars, thkVars, churnVars>>

nonPclVars == <<earlierVars, abuseVars, catVars, staleVars, aggVars, hcbVars,
                againVars, rwfVars, randVars, hellVars, thkVars, churnVars>>

nonRandVars == <<earlierVars, abuseVars, catVars, staleVars, aggVars,
                 hcbVars, againVars, rwfVars, pclVars, hellVars, thkVars,
                 churnVars>>

nonHellVars == <<earlierVars, abuseVars, catVars, staleVars, aggVars,
                 hcbVars, againVars, rwfVars, pclVars, randVars, thkVars,
                 churnVars>>

nonThkVars == <<earlierVars, abuseVars, catVars, staleVars, aggVars, hcbVars,
                againVars, rwfVars, pclVars, randVars, hellVars, churnVars>>

nonChurnVars == <<earlierVars, abuseVars, catVars, staleVars, aggVars,
                  hcbVars, againVars, rwfVars, pclVars, randVars, hellVars,
                  thkVars>>

nonKeysAgainVars == <<scnVars, runVars, objVars, weirdVars, abuseVars,
                      catVars, staleVars, aggVars, hcbVars, rwfVars, pclVars,
                      randVars, hellVars, thkVars, churnVars>>

vars == <<earlierVars, laterVars>>

\* ------------------------------------------------- generate_colliding_keys
Pow2(n) == 2 ^ n

HashWord == Pow2(HashBits)

\* _DUMMY_DICT._rehash(i): the subject's hash of an integer key, a HashBits-bit
\* word.  The subject is opaque: the function is a multiplicative mixer whose
\* odd multiplier and offset are drawn in Init.
Rehash(k) == (k * hashMul + hashAdd) % HashWord

\* x >> n on Python integers, n >= 0
ShiftRight(x, n) == x \div Pow2(n)

\* A plausible slip: the low log_size bits instead of the top ones.
BucketOfLowBits(k) == Rehash(k) % Pow2(log_size)

\* bucket = _DUMMY_DICT._rehash(i) >> (64 - log_size)
BucketOf(k) == ShiftRight(Rehash(k), HashBits - log_size)

EmptyResults == [b \in {} |-> <<>>]

\* results[bucket] on a defaultdict(list): a missing bucket is created empty.
Touch(res, b) == IF b \in DOMAIN res THEN res
                 ELSE [x \in DOMAIN res \cup {b} |-> IF x = b THEN <<>> ELSE res[x]]

\* all(len(v) >= keys_per_bucket for k, v in results.items() if k < num_buckets_to_fill)
AllFull(res) == \A b \in DOMAIN res :
                    b < num_buckets_to_fill => Len(res[b]) >= keys_per_bucket

KeysStart ==
    /\ dummy_dict \in {"AtomicDict", "None"}
    /\ hashMul \in {m \in 1..(HashWord - 1) : m % 2 = 1}
    /\ hashAdd \in 0..(HashWord - 1)
    /\ log_size \in 0..(HashBits + 1)
    /\ num_buckets_to_fill \in 0..MaxBuckets
    /\ keys_per_bucket \in 0..MaxQuota
    /\ kpc = "idle"
    /\ i = 0
    /\ results = EmptyResults
    /\ filled_buckets = {}
    /\ examined = 0
    /\ broke = FALSE
    /\ exhausted_warning = FALSE

\* Entry of generate_colliding_keys up to the first loop iteration.
KeysCall ==
    /\ kpc = "idle"
    /\ kpc' = IF dummy_dict = "None" THEN "returned" ELSE "loop"
    /\ UNCHANGED <<dummy_dict, hashMul, hashAdd, log_size, num_buckets_to_fill,
                   keys_per_bucket, i, results, filled_buckets, examined, broke,
                   exhausted_warning, nonKeysVars>>

\* A negative shift count raises ValueError out of the function.
KeysShiftError ==
    /\ kpc = "loop"
    /\ HashBits - log_size < 0
    /\ kpc' = "raised"
    /\ UNCHANGED <<dummy_dict, hashMul, hashAdd, log_size, num_buckets_to_fill,
                   keys_per_bucket, i, results, filled_buckets, examined, broke,
                   exhausted_warning, nonKeysVars>>

\* One iteration of the for loop; the iteration that ends the range without a
\* break also runs the for-else warning and the return.
KeysIterate ==
    /\ kpc = "loop"
    /\ HashBits - log_size >= 0
    /\ i < SearchCeiling
    /\ LET bucket   == BucketOf(i)
           targeted == bucket < num_buckets_to_fill
           touched  == IF targeted THEN Touch(results, bucket) ELSE results
           take     == targeted /\ Len(touched[bucket]) < keys_per_bucket
           res1     == IF take
                       THEN [touched EXCEPT ![bucket] = Append(@, i)]
                       ELSE touched
           filled1  == IF take THEN filled_buckets \cup {bucket} ELSE filled_buckets
           stop     == Cardinality(filled1) >= num_buckets_to_fill /\ AllFull(res1)
       IN /\ results' = res1
          /\ filled_buckets' = filled1
          /\ examined' = examined + 1
          /\ broke' = stop
          /\ i' = IF stop THEN i ELSE i + 1
          /\ kpc' = IF stop \/ i + 1 = SearchCeiling THEN "returned" ELSE "loop"
          /\ exhausted_warning' = (~stop /\ i + 1 = SearchCeiling)
    /\ UNCHANGED <<dummy_dict, hashMul, hashAdd, log_size, num_buckets_to_fill,
                   keys_per_bucket, nonKeysVars>>


\* ------------------------------------------------------------ scenarios
\* Python values read back from the subject: None or an int.
PyNone == <<"None">>

PyInt(n) == <<"int", n>>

\* any other Python object, by name
PyObj(name) == <<"obj", name>>

\* a list object held by an AtomicRef: its first element and its length
ListOf(first, n) == <<"list", first, n>>

EmptyDict == [k \in {} |-> 0]

THE_KEY == "the_one_key"

ContentionScenarios ==
    {"dogpile_on_atomicint", "dogpile_on_atomicdict_key", "migration_storm"}

WhitelistScenarios ==
    {"scenario_numeric_hell", "scenario_reduce_with_shared_handle_iterator"}

\* scenarios that start workers looping on `while not stop_event.is_set()`,
\* sleep duration_sec and set the flag
StopFlagScenarios == {"high_frequency_cas_race", "mutable_vs_container_race",
                      "handle_vs_direct_ref_swap_race",
                      "fast_iter_vs_mutation_race"}

\* scenarios that join `for t in threads: t.join(timeout=...)` and then run
\* `if errors: raise RuntimeError(...) from errors[0]`
TimedJoinScenarios == {"high_frequency_cas_race", "mutable_vs_container_race",
                       "handle_vs_direct_ref_swap_race", "shared_handle_race"}

\* stop-flag workers whose loop body is try / except Exception as e:
\* errors.append(e); break
ErrorListLoopScenarios == StopFlagScenarios \cap TimedJoinScenarios

Scenarios ==
    ContentionScenarios \cup WhitelistScenarios \cup StopFlagScenarios
        \cup TimedJoinScenarios
        \cup {"scenario_grow_shrink_and_reuse", "race_condition_ref_vs_gc",
              "scenario_latch_decremented_by_reduce"}

\* race_condition_ref_vs_gc: h_thread is worker 0, g_thread is worker 1
HammerThread == 0

GcThread == 1

\* _volatile_ref_for_handle = cereggii.AtomicRef(100)
VolatileRefInitial == 100

REDUCE_KEY == "reduce_target"

\* exceptions an operation on the subject can raise into the caller
ExceptionKinds == {"OverflowError", "TypeError", "ValueError",
                   "ZeroDivisionError", "KeyError", "RuntimeError"}

\* exceptions that reach a worker's `except Exception as e: errors.append(e)`;
\* the handler treats every kind alike, two kinds keep errors[0] observable
CaughtKinds == {"TypeError", "RuntimeError"}

\* the `except (...)` clause that swallows expected errors in a worker
Whitelist(sc) ==
    IF sc = "scenario_numeric_hell"
    THEN {"OverflowError", "TypeError", "ValueError", "ZeroDivisionError"}
    ELSE {"ValueError"}

\* objects the CAS race picks expected/desired from
TrickyObjects == {PyNone, PyObj("obj_a"), PyObj("obj_b")}

Workers == 0..(num_threads - 1)

\* iterations of a worker's for loop
OpsOf(sc) == IF sc = "scenario_reduce_with_shared_handle_iterator" THEN 1
             ELSE ops_per_thread

\* ---- the subject's operations
\* AtomicInt64.increment_and_get(): a faulty subject may lose the update.
IncrementAndGet(c) == IF subject = "faulty" THEN {c, c + 1} ELSE {c + 1}

SetItem(m, k, v) == [x \in DOMAIN m \cup {k} |-> IF x = k THEN v ELSE m[x]]

DelItem(m, k) == [x \in DOMAIN m \ {k} |-> m[x]]

\* d[k] = v
SetItemOutcomes(m, k, v) ==
    IF subject = "faulty" THEN {SetItem(m, k, v), m} ELSE {SetItem(m, k, v)}

\* del d[k], k present
DelItemOutcomes(m, k) ==
    IF subject = "faulty" THEN {DelItem(m, k), m} ELSE {DelItem(m, k)}

\* d.reduce_sum([(k, 1)])
ReduceSumOutcomes(m, k) ==
    LET c == IF k \in DOMAIN m THEN m[k] ELSE 0
    IN  SetItemOutcomes(m, k, c + 1)

\* d.get(k): None when the key is absent
DictGet(m, k) == IF k \in DOMAIN m THEN PyInt(m[k]) ELSE PyNone

\* AtomicRef.compare_and_set(expected, desired)
CompareAndSet(r, e, v) == IF r = e THEN v ELSE r

\* ---- ThreadSet / threading orchestration
\* A plausible change: the threads are joined without stop_event.set().
StartPcWithoutStop(k) == IF k < num_threads THEN "start"
                         ELSE IF scenario = "race_condition_ref_vs_gc" THEN "gate"
                         ELSE IF num_threads = 0 THEN "verify" ELSE "join"

\* where the main thread goes when k threads have been started
StartPc(k) == IF k < num_threads THEN "start"
              ELSE IF scenario = "race_condition_ref_vs_gc" THEN "gate"
              ELSE IF scenario \in StopFlagScenarios THEN "sleep"
              ELSE IF num_threads = 0 THEN "verify" ELSE "join"

\* where the main thread goes when k threads have been joined
JoinPc(k) == IF k < num_threads THEN "join" ELSE "verify"

\* A plausible slip: join() returns without waiting for the thread.
JoinReadyAtOnce(t) == TRUE

\* t.join() returns once thread t has finished
JoinReady(t) == wpc[t] \in {"done", "died"}

\* A plausible slip: the timeout argument is left out of a join.
JoinIsUntimed(sc) == FALSE

\* the scenario joins with t.join(timeout=...)
JoinIsTimed(sc) == sc \in TimedJoinScenarios \cup {"race_condition_ref_vs_gc"}

\* A plausible slip: a failed reduce worker does not drain the latch.
DrainCountNone(l) == 0

\* for _ in range(current_latch_val): range() of a value <= 0 is empty
DrainCount(l) == IF l > 0 THEN l ELSE 0

\* A plausible slip: only the latch assertion is made.
AssertsLatchOnly(l, a, e) == l = 0

\* assert final_latch_count == 0; assert final_dict_value == expected_dict_value
AssertsHold(l, a, e) == l = 0 /\ a = PyInt(e)

\* A plausible slip: every thread gets the block that starts at its id.
StartKeyOverlapping(t) == t

\* start_key = thread_id * keys_per_thread
StartKey(t) == t * ops_per_thread

\* A plausible slip: the warning is printed only for a value below expected.
DeviatesOnlyBelow(a, e) == a[1] = "int" /\ a[2] < e

\* if actual != expected:
Deviates(a, e) == a # PyInt(e)

\* A plausible change: a deviation from the expected value is a failure.
SurvivedUnlessDeviation(deviation, unexpected) ==
    IF deviation THEN "False" ELSE "True"

\* A plausible change: an unexpected exception in a worker is a failure.
SurvivedUnlessUnexpected(deviation, unexpected) ==
    IF unexpected THEN "False" ELSE "True"

\* return True  # Survived without crashing
SurvivedValue(deviation, unexpected) == "True"

ScnIdle ==
    /\ scenario = "none"
    /\ subject = "sound"
    /\ deps_met = TRUE
    /\ num_threads = 0
    /\ ops_per_thread = 0
    /\ num_iter_threads = 0
    /\ mainPc = "idle"
    /\ started = 0
    /\ joined = 0
    /\ loop_i = 0
    /\ wpc = <<>>
    /\ wops = <<>>
    /\ counter = 0
    /\ d = EmptyDict
    /\ ref = PyNone
    /\ key_counter = <<>>
    /\ stop_event = FALSE
    /\ errors = <<>>
    /\ timed_out = {}
    /\ unexpected_caught = FALSE
    /\ actual = PyNone
    /\ expected = 0
    /\ warned = FALSE
    /\ ret = "unset"
    /\ num_reduce_threads = 0
    /\ counts_below_zero = FALSE
    /\ can_start = FALSE
    /\ latch = 0
    /\ drain = <<>>
    /\ raised_exc = <<>>

\* tricky_atomicdict as imported, before any instance is made:
\* _unstable_hash_counter = itertools.count()
ObjStart ==
    /\ unstable_hash_counter = 0
    /\ unstable = <<>>
    /\ raisers = 0
    /\ hash_log = <<>>
    /\ unequal_made = 0
    /\ collision_dict = {}
    /\ inserted = {}

WeirdIdle ==
    /\ weird_pc = "idle"
    /\ base_class = "none"
    /\ method_name = "none"
    /\ behavior_name = "none"
    /\ new_class = <<>>
    /\ invoked = <<>>
    /\ result = <<>>

RunIdle ==
    /\ run_pc = "idle"
    /\ all_scenario_names = 0
    /\ run_i = 0
    /\ attempted = 0
    /\ completed = 0
    /\ failed = 0
    /\ not_found = 0
    /\ exit_status = -1
    /\ call_result = "none"

KeysIdle ==
    /\ dummy_dict = "AtomicDict"
    /\ hashMul = 1
    /\ hashAdd = 0
    /\ log_size = 0
    /\ num_buckets_to_fill = 0
    /\ keys_per_bucket = 0
    /\ kpc = "idle"
    /\ i = 0
    /\ results = EmptyResults
    /\ filled_buckets = {}
    /\ examined = 0
    /\ broke = FALSE
    /\ exhausted_warning = FALSE

\* A scenario function is about to be called with its parameters.
ScnStart ==
    /\ scenario \in Scenarios
    /\ subject \in (IF scenario = "scenario_latch_decremented_by_reduce"
                     THEN {"sound"} ELSE {"sound", "faulty"})
    /\ deps_met \in (IF scenario = "scenario_reduce_with_shared_handle_iterator"
                     THEN BOOLEAN ELSE {TRUE})
    /\ num_threads \in (IF scenario = "scenario_grow_shrink_and_reuse"
                        THEN {0}
                        ELSE IF scenario = "race_condition_ref_vs_gc"
                        THEN {2}
                        ELSE 0..MaxThreads)
    /\ ops_per_thread \in (IF scenario \in StopFlagScenarios
                                 \cup {"scenario_reduce_with_shared_handle_iterator",
                                       "race_condition_ref_vs_gc"}
                           THEN {0}
                           ELSE IF scenario = "scenario_latch_decremented_by_reduce"
                           THEN 0..MaxItemsPerReduce
                           ELSE 0..MaxOps)
    /\ num_iter_threads \in (IF scenario = "fast_iter_vs_mutation_race"
                             THEN 0..num_threads ELSE {0})
    /\ counts_below_zero \in (IF scenario = "scenario_latch_decremented_by_reduce"
                              THEN BOOLEAN ELSE {FALSE})
    /\ num_reduce_threads \in (IF scenario = "scenario_latch_decremented_by_reduce"
                               THEN 0..num_threads ELSE {0})
    /\ mainPc = "call"
    /\ started = 0
    /\ joined = 0
    /\ loop_i = 0
    /\ wpc = [t \in Workers |-> "created"]
    /\ wops = [t \in Workers |-> 0]
    /\ counter = 0
    /\ d = EmptyDict
    /\ ref = IF scenario = "handle_vs_direct_ref_swap_race"
             THEN PyInt(VolatileRefInitial) ELSE PyNone
    /\ key_counter = [t \in Workers |-> 0]
    /\ stop_event = FALSE
    /\ errors = <<>>
    /\ timed_out = {}
    /\ unexpected_caught = FALSE
    /\ actual = PyNone
    /\ expected = 0
    /\ warned = FALSE
    /\ ret = "unset"
    /\ can_start = FALSE
    /\ latch = 0
    /\ drain = [t \in Workers |-> 0]
    /\ raised_exc = <<>>

AbuseIdle ==
    /\ sca_pc = "idle"
    /\ sca_base = "none"
    /\ sca_method_name = "none"
    /\ sca_args = <<>>
    /\ super_method = "unset"
    /\ super_calls = <<>>
    /\ sca_return = <<"unset">>
    /\ sca_raised = "none"

CatIdle ==
    /\ cat_pc = "idle"
    /\ visited = {}
    /\ could_not_instantiate = {}
    /\ tricky_weird_cereggii_objects = <<>>

StaleIdle ==
    /\ stale_pc = "idle"
    /\ reaper_pc = "created"
    /\ user_pc = "created"
    /\ reaper_finished = FALSE
    /\ wait_expired = FALSE
    /\ target_collected = FALSE
    /\ access = "none"
    /\ user_exception = <<>>
    /\ stale_raised = "none"

AggIdle ==
    /\ agg_pc = "idle"
    /\ agg_i = 0
    /\ tricky_cereggii_code_snippets = <<>>
    /\ name_lists = <<>>
    /\ var_names = <<>>
    /\ retrieved = <<>>
    /\ agg_log = {}
    /\ gen_result = <<>>

HcbIdle ==
    /\ hcb_pc = "idle"
    /\ pop_i = 0
    /\ modules = <<>>
    /\ colliding_key_sets = <<>>
    /\ key_set = <<"unset">>
    /\ map_operations = 0
    /\ hammer_d = <<>>
    /\ deleted_set = {}
    /\ hammer_errors = 0
    /\ hcb_return = "unset"
    /\ hcb_raised = "none"

AgainIdle ==
    /\ call_no = 0
    /\ first_return = <<>>

RwfIdle ==
    /\ rwf_pc = "idle"
    /\ num_success_threads = 0
    /\ num_failure_threads = 0
    /\ num_items_per_success_thread = 0
    /\ has_malicious_iterables = FALSE
    /\ reduce_subject = "sound"
    /\ atomic_dict = <<>>
    /\ yield_count = 0
    /\ rwf_started = 0
    /\ rwf_wpc = <<>>
    /\ rwf_read = <<>>
    /\ rwf_return = "unset"
    /\ rwf_raised = "none"

PclIdle ==
    /\ pcl_pc = "idle"
    /\ tricky_ints_for_latch = <<>>
    /\ num_waiters = 0
    /\ num_decrementers = 0
    /\ poison_i = 0
    /\ poison_latch = 0
    /\ pcl_started = 0
    /\ pcl_wpc = <<>>
    /\ all_survived = TRUE
    /\ pcl_return = "unset"

RandIdle ==
    /\ ro_pc = "idle"
    /\ num_steps = 0
    /\ step = 0
    /\ rand_d = {}
    /\ model = {}
    /\ ro_subject = "sound"
    /\ lens = <<>>
    /\ ro_return = "unset"
    /\ ro_raised = "none"

HellIdle ==
    /\ hell_pc = "idle"
    /\ hell_scenario = "none"
    /\ imports_ok = TRUE
    /\ handle_objects = <<>>
    /\ hell_num_threads = 0
    /\ num_ops_per_thread = 0
    /\ pool_created = FALSE
    /\ hell_started = 0
    /\ hell_wpc = <<>>
    /\ iterations = <<>>
    /\ ops_attempted = <<>>
    /\ last_outcome = <<>>
    /\ hell_return = "unset"
    /\ hell_raised = "none"

ThkIdle ==
    /\ thk_pc = "idle"
    /\ thk_i = 0
    /\ has_deps = FALSE
    /\ tricky_obj_names = {}
    /\ tricky_hashable_keys = <<>>
    /\ registered = {}
    /\ made = 0

ChurnIdle ==
    /\ churn_pc = "idle"
    /\ num_cycles = 0
    /\ num_threads_per_cycle = 0
    /\ churn_i = 0
    /\ churn_d = 0
    /\ churn_started = 0
    /\ churn_wpc = <<>>
    /\ map_users = <<>>
    /\ churn_return = "unset"

LaterIdle == AbuseIdle /\ CatIdle /\ StaleIdle /\ AggIdle /\ HcbIdle /\
    AgainIdle /\ RwfIdle /\ PclIdle /\ RandIdle /\ HellIdle /\ ThkIdle /\
    ChurnIdle

Init == ScnStart /\ KeysIdle /\ RunIdle /\ ObjStart /\ WeirdIdle /\ LaterIdle

KeysInit == KeysStart /\ ScnIdle /\ RunIdle /\ ObjStart /\ WeirdIdle /\ LaterIdle

\* every part modelled above the later ones, at rest
EarlierIdle == KeysIdle /\ ScnIdle /\ RunIdle /\ ObjStart /\ WeirdIdle

params == <<scenario, subject, deps_met, num_threads, ops_per_thread,
            num_iter_threads, num_reduce_threads, counts_below_zero>>

\* ---- the main thread
\* The scenario function up to its first thread start: the dependency guard,
\* the subject instances, the worker closures and the thread objects.
Call ==
    /\ mainPc = "call"
    /\ IF \/ scenario = "scenario_reduce_with_shared_handle_iterator" /\ ~deps_met
          \/ /\ scenario = "scenario_latch_decremented_by_reduce"
             /\ num_reduce_threads * ops_per_thread <= 0
       THEN /\ ret' = "False"
            /\ mainPc' = "returned"
            /\ UNCHANGED <<d, key_counter, ref, latch>>
       ELSE /\ ret' = ret
            /\ mainPc' = IF scenario = "scenario_grow_shrink_and_reuse"
                         THEN (IF ops_per_thread = 0 THEN "verify" ELSE "grow")
                         ELSE StartPc(0)
            /\ IF scenario = "fast_iter_vs_mutation_race"
               THEN /\ d' = [k \in 0..(num_iter_threads * PrepopPerIterThread - 1) |-> k]
                    /\ key_counter' = [t \in Workers |->
                                          num_iter_threads * PrepopPerIterThread]
               ELSE UNCHANGED <<d, key_counter>>
            /\ ref' = IF scenario = "mutable_vs_container_race"
                      THEN ListOf(1, 1)
                      ELSE IF scenario = "race_condition_ref_vs_gc"
                      THEN PyObj("obj_to_race")
                      ELSE ref
            /\ latch' = IF scenario = "scenario_latch_decremented_by_reduce"
                        THEN num_reduce_threads * ops_per_thread
                        ELSE latch
    /\ UNCHANGED <<params, started, joined, loop_i, wpc, wops, counter,
                   stop_event, errors, timed_out, unexpected_caught, actual,
                   expected, warned, can_start, drain, raised_exc,
                   nonScnVars>>

\* for t in self._threads: t.start()   (one thread per step)
StartThread ==
    /\ mainPc = "start"
    /\ started < num_threads
    /\ wpc' = [wpc EXCEPT ![started] = "running"]
    /\ started' = started + 1
    /\ mainPc' = StartPc(started + 1)
    /\ UNCHANGED <<params, joined, loop_i, wops, counter, d, ref, key_counter,
                   stop_event, errors, timed_out, unexpected_caught, actual,
                   expected, warned, ret, can_start, latchVars, raised_exc,
                   nonScnVars>>

\* time.sleep(duration_sec); stop_event.set()
SetStop ==
    /\ mainPc = "sleep"
    /\ stop_event' = TRUE
    /\ mainPc' = IF scenario = "race_condition_ref_vs_gc" THEN "join_hammer"
                 ELSE IF num_threads = 0 THEN "verify" ELSE "join"
    /\ UNCHANGED <<params, started, joined, loop_i, wpc, wops, counter, d, ref,
                   key_counter, errors, timed_out, unexpected_caught, actual,
                   expected, warned, ret, can_start, latchVars, raised_exc,
                   nonScnVars>>

\* for t in self._threads: t.join()   (one thread per step; blocks until the
\* thread has finished)
JoinThread ==
    /\ mainPc = "join"
    /\ joined < num_threads
    /\ JoinReady(joined)
    /\ joined' = joined + 1
    /\ mainPc' = JoinPc(joined + 1)
    /\ UNCHANGED <<params, started, loop_i, wpc, wops, counter, d, ref,
                   key_counter, stop_event, errors, timed_out,
                   unexpected_caught, actual, expected, warned, ret, can_start, latchVars, raised_exc,
                   nonScnVars>>

\* t.join(timeout=...) gives up on a thread that has not finished in time.
JoinTimeout ==
    /\ mainPc = "join"
    /\ JoinIsTimed(scenario)
    /\ joined < num_threads
    /\ ~JoinReady(joined)
    /\ timed_out' = timed_out \cup {joined}
    /\ joined' = joined + 1
    /\ mainPc' = JoinPc(joined + 1)
    /\ UNCHANGED <<params, started, loop_i, wpc, wops, counter, d, ref,
                   key_counter, stop_event, errors, unexpected_caught, actual,
                   expected, warned, ret, can_start, latchVars, raised_exc,
                   nonScnVars>>

\* The code after the join: the comparison with its warning, the errors check,
\* and the return.
Verify ==
    /\ mainPc = "verify"
    /\ scenario \notin {"race_condition_ref_vs_gc",
                        "scenario_latch_decremented_by_reduce"}
    /\ IF scenario \in TimedJoinScenarios /\ errors # <<>>
       THEN \* if errors: raise RuntimeError(...) from errors[0]
            /\ mainPc' = "raised"
            /\ raised_exc' = <<"RuntimeError", errors[1]>>
            /\ UNCHANGED <<actual, expected, warned, ret>>
       ELSE /\ mainPc' = "returned"
            /\ UNCHANGED raised_exc
            /\ IF scenario \in ContentionScenarios
                    \cup {"scenario_grow_shrink_and_reuse", "shared_handle_race"}
               THEN /\ expected' = IF scenario = "scenario_grow_shrink_and_reuse"
                                   THEN ops_per_thread
                                   ELSE num_threads * ops_per_thread
                    /\ actual' =
                         IF scenario \in {"dogpile_on_atomicint", "shared_handle_race"}
                         THEN PyInt(counter)
                         ELSE IF scenario = "dogpile_on_atomicdict_key"
                         THEN DictGet(d, THE_KEY)
                         ELSE PyInt(Cardinality(DOMAIN d))
                    /\ warned' = Deviates(actual', expected')
               ELSE UNCHANGED <<actual, expected, warned>>
            /\ ret' = SurvivedValue(warned', unexpected_caught)
    /\ UNCHANGED <<params, started, joined, loop_i, wpc, wops, counter, d, ref,
                   key_counter, stop_event, errors, timed_out,
                   unexpected_caught, can_start, latchVars, nonScnVars>>

\* race_condition_ref_vs_gc: can_start.set()
OpenGate ==
    /\ mainPc = "gate"
    /\ can_start' = TRUE
    /\ mainPc' = "join_gc"
    /\ UNCHANGED <<params, started, joined, loop_i, wpc, wops, counter, d, ref,
                   key_counter, stop_event, errors, timed_out,
                   unexpected_caught, actual, expected, warned, ret, latchVars,
                   raised_exc, nonScnVars>>

\* g_thread.join(timeout=1.0): returns when the thread has finished or when
\* the timeout expires
JoinGc ==
    /\ mainPc = "join_gc"
    /\ \/ JoinReady(GcThread) /\ UNCHANGED timed_out
       \/ /\ JoinIsTimed(scenario)
          /\ ~JoinReady(GcThread)
          /\ timed_out' = timed_out \cup {GcThread}
    /\ mainPc' = "sleep"
    /\ UNCHANGED <<params, started, joined, loop_i, wpc, wops, counter, d, ref,
                   key_counter, stop_event, errors, unexpected_caught, actual,
                   expected, warned, ret, can_start, latchVars, raised_exc,
                   nonScnVars>>

\* h_thread.join(timeout=1.0)
JoinHammer ==
    /\ mainPc = "join_hammer"
    /\ \/ JoinReady(HammerThread) /\ UNCHANGED timed_out
       \/ /\ JoinIsTimed(scenario)
          /\ ~JoinReady(HammerThread)
          /\ timed_out' = timed_out \cup {HammerThread}
    /\ mainPc' = "verify"
    /\ UNCHANGED <<params, started, joined, loop_i, wpc, wops, counter, d, ref,
                   key_counter, stop_event, errors, unexpected_caught, actual,
                   expected, warned, ret, can_start, latchVars, raised_exc,
                   nonScnVars>>

\* race_condition_ref_vs_gc after the joins: if errors: raise errors[0];
\* return True
VerifyGcRace ==
    /\ mainPc = "verify"
    /\ scenario = "race_condition_ref_vs_gc"
    /\ IF errors # <<>>
       THEN /\ mainPc' = "raised"
            /\ raised_exc' = <<errors[1]>>
            /\ UNCHANGED ret
       ELSE /\ mainPc' = "returned"
            /\ ret' = SurvivedValue(FALSE, unexpected_caught)
            /\ UNCHANGED raised_exc
    /\ UNCHANGED <<params, started, joined, loop_i, wpc, wops, counter, d, ref,
                   key_counter, stop_event, errors, timed_out,
                   unexpected_caught, actual, expected, warned, can_start,
                   latchVars, nonScnVars>>

\* scenario_latch_decremented_by_reduce after start_and_join: the two
\* assertions and the return
VerifyLatch ==
    /\ mainPc = "verify"
    /\ scenario = "scenario_latch_decremented_by_reduce"
    /\ expected' = num_reduce_threads * ops_per_thread
    /\ actual' = DictGet(d, REDUCE_KEY)
    /\ IF AssertsHold(latch, actual', expected')
       THEN /\ mainPc' = "returned"
            /\ ret' = "True"
            /\ UNCHANGED raised_exc
       ELSE /\ mainPc' = "raised"
            /\ raised_exc' = <<"AssertionError">>
            /\ UNCHANGED ret
    /\ UNCHANGED <<params, started, joined, loop_i, wpc, wops, counter, d, ref,
                   key_counter, stop_event, errors, timed_out,
                   unexpected_caught, warned, can_start, latchVars, nonScnVars>>

\* scenario_grow_shrink_and_reuse, phase 1: d[i] = i
Grow ==
    /\ mainPc = "grow"
    /\ d' \in SetItemOutcomes(d, loop_i, loop_i)
    /\ loop_i' = IF loop_i + 1 < ops_per_thread THEN loop_i + 1 ELSE 0
    /\ mainPc' = IF loop_i + 1 < ops_per_thread THEN "grow" ELSE "shrink"
    /\ UNCHANGED <<params, started, joined, wpc, wops, counter, ref,
                   key_counter, stop_event, errors, timed_out,
                   unexpected_caught, actual, expected, warned, ret, can_start, latchVars, raised_exc,
                   nonScnVars>>

\* phase 2: del d[i]; a missing key raises KeyError out of the scenario
Shrink ==
    /\ mainPc = "shrink"
    /\ IF loop_i \in DOMAIN d
       THEN /\ d' \in DelItemOutcomes(d, loop_i)
            /\ loop_i' = IF loop_i + 1 < ops_per_thread THEN loop_i + 1 ELSE 0
            /\ mainPc' = IF loop_i + 1 < ops_per_thread THEN "shrink" ELSE "reuse"
            /\ UNCHANGED raised_exc
       ELSE /\ mainPc' = "raised"
            /\ raised_exc' = <<"KeyError">>
            /\ UNCHANGED <<d, loop_i>>
    /\ UNCHANGED <<params, started, joined, wpc, wops, counter, ref,
                   key_counter, stop_event, errors, timed_out,
                   unexpected_caught, actual, expected, warned, ret, can_start,
                   latchVars, nonScnVars>>

\* phase 3: d[i + num_items] = i
Reuse ==
    /\ mainPc = "reuse"
    /\ d' \in SetItemOutcomes(d, loop_i + ops_per_thread, loop_i)
    /\ loop_i' = IF loop_i + 1 < ops_per_thread THEN loop_i + 1 ELSE 0
    /\ mainPc' = IF loop_i + 1 < ops_per_thread THEN "reuse" ELSE "verify"
    /\ UNCHANGED <<params, started, joined, wpc, wops, counter, ref,
                   key_counter, stop_event, errors, timed_out,
                   unexpected_caught, actual, expected, warned, ret, can_start, latchVars, raised_exc,
                   nonScnVars>>

\* ---- the worker threads
Running(t) == t \in Workers /\ wpc[t] = "running"

CountedLoop == scenario \in ContentionScenarios \cup WhitelistScenarios
                   \cup {"shared_handle_race"}

\* dogpile_on_atomicint.worker: counter.increment_and_get()
WorkerIncrement(t) ==
    /\ Running(t)
    /\ scenario = "dogpile_on_atomicint"
    /\ wops[t] < ops_per_thread
    /\ counter' \in IncrementAndGet(counter)
    /\ wops' = [wops EXCEPT ![t] = @ + 1]
    /\ UNCHANGED <<params, mainPc, started, joined, loop_i, wpc, d, ref,
                   key_counter, stop_event, errors, timed_out,
                   unexpected_caught, actual, expected, warned, ret, can_start, latchVars, raised_exc,
                   nonScnVars>>

\* dogpile_on_atomicdict_key.worker: d.reduce_sum([(THE_KEY, 1)])
WorkerReduceSum(t) ==
    /\ Running(t)
    /\ scenario = "dogpile_on_atomicdict_key"
    /\ wops[t] < ops_per_thread
    /\ d' \in ReduceSumOutcomes(d, THE_KEY)
    /\ wops' = [wops EXCEPT ![t] = @ + 1]
    /\ UNCHANGED <<params, mainPc, started, joined, loop_i, wpc, counter, ref,
                   key_counter, stop_event, errors, timed_out,
                   unexpected_caught, actual, expected, warned, ret, can_start, latchVars, raised_exc,
                   nonScnVars>>

\* migration_storm.worker: d[i] = thread_id for i in range(start_key, end_key)
WorkerInsert(t) ==
    /\ Running(t)
    /\ scenario = "migration_storm"
    /\ wops[t] < ops_per_thread
    /\ d' \in SetItemOutcomes(d, StartKey(t) + wops[t], t)
    /\ wops' = [wops EXCEPT ![t] = @ + 1]
    /\ UNCHANGED <<params, mainPc, started, joined, loop_i, wpc, counter, ref,
                   key_counter, stop_event, errors, timed_out,
                   unexpected_caught, actual, expected, warned, ret, can_start, latchVars, raised_exc,
                   nonScnVars>>

\* scenario_numeric_hell.worker and the synergy worker: one operation inside
\* try / except <whitelist>: pass / except Exception: print("ERROR ...")
WorkerWhitelistedOp(t) ==
    /\ Running(t)
    /\ scenario \in WhitelistScenarios
    /\ wops[t] < OpsOf(scenario)
    /\ \E outcome \in ExceptionKinds \cup {"ok"} :
          unexpected_caught' =
              (unexpected_caught
                 \/ outcome \notin Whitelist(scenario) \cup {"ok"})
    /\ wops' = [wops EXCEPT ![t] = @ + 1]
    /\ UNCHANGED <<params, mainPc, started, joined, loop_i, wpc, counter, d,
                   ref, key_counter, stop_event, errors, timed_out, actual,
                   expected, warned, ret, can_start, latchVars, raised_exc,
                   nonScnVars>>

\* scenario_numeric_hell.worker: the statements of an iteration that run before
\* the try (random.choice on the pools, the prints of the operands) raise; the
\* exception is not caught and ends the thread
WorkerDiesBeforeTry(t) ==
    /\ Running(t)
    /\ scenario = "scenario_numeric_hell"
    /\ wops[t] < ops_per_thread
    /\ wpc' = [wpc EXCEPT ![t] = "died"]
    /\ UNCHANGED <<params, mainPc, started, joined, loop_i, wops, counter, d,
                   ref, key_counter, stop_event, errors, timed_out,
                   unexpected_caught, actual, expected, warned, ret, can_start, latchVars, raised_exc,
                   nonScnVars>>

\* shared_handle_race.worker: shared_handle.increment_and_get() inside one
\* try around the whole loop; an exception is appended and ends the thread
WorkerHandleIncrement(t) ==
    /\ Running(t)
    /\ scenario = "shared_handle_race"
    /\ wops[t] < ops_per_thread
    /\ \/ /\ counter' \in IncrementAndGet(counter)
          /\ wops' = [wops EXCEPT ![t] = @ + 1]
          /\ UNCHANGED <<errors, wpc>>
       \/ /\ \E e \in CaughtKinds : errors' = Append(errors, e)
          /\ wpc' = [wpc EXCEPT ![t] = "done"]
          /\ UNCHANGED <<counter, wops>>
    /\ UNCHANGED <<params, mainPc, started, joined, loop_i, d, ref,
                   key_counter, stop_event, timed_out, unexpected_caught,
                   actual, expected, warned, ret, can_start, latchVars, raised_exc,
                   nonScnVars>>

\* the worker function returns after its for loop
WorkerReturn(t) ==
    /\ Running(t)
    /\ CountedLoop
    /\ wops[t] = OpsOf(scenario)
    /\ wpc' = [wpc EXCEPT ![t] = "done"]
    /\ UNCHANGED <<params, mainPc, started, joined, loop_i, wops, counter, d,
                   ref, key_counter, stop_event, errors, timed_out,
                   unexpected_caught, actual, expected, warned, ret, can_start, latchVars, raised_exc,
                   nonScnVars>>

\* A plausible slip: the hammer thread does not wait for the start gate.
InErrorListLoopUngated(t) ==
    \/ scenario \in ErrorListLoopScenarios
    \/ scenario = "race_condition_ref_vs_gc" /\ t = HammerThread

\* A worker whose loop body is try / except Exception as e: errors.append(e);
\* break.  wops[t] is its position: 0 at the `while not stop.is_set()` test,
\* k >= 1 before the k-th operation of the body.
InErrorListLoop(t) ==
    \/ scenario \in ErrorListLoopScenarios
    \/ scenario = "race_condition_ref_vs_gc" /\ t = HammerThread /\ can_start

\* `while not stop_event.is_set():` evaluated with the flag clear
WorkerLoopTest(t) ==
    /\ Running(t)
    /\ InErrorListLoop(t)
    /\ wops[t] = 0
    /\ ~stop_event
    /\ wops' = [wops EXCEPT ![t] = 1]
    /\ UNCHANGED <<params, mainPc, started, joined, loop_i, wpc, counter, d,
                   ref, key_counter, stop_event, errors, timed_out,
                   unexpected_caught, actual, expected, warned, ret, can_start,
                   latchVars, raised_exc, nonScnVars>>

\* except Exception as e: errors.append(e); break
WorkerRecordsError(t) ==
    /\ \E e \in CaughtKinds : errors' = Append(errors, e)
    /\ wpc' = [wpc EXCEPT ![t] = "done"]

\* high_frequency_cas_race.worker: the body of one iteration
WorkerCas(t) ==
    /\ Running(t)
    /\ scenario = "high_frequency_cas_race"
    /\ wops[t] = 1
    /\ \/ /\ \E e \in TrickyObjects, v \in TrickyObjects :
                ref' = CompareAndSet(ref, e, v)
          /\ wops' = [wops EXCEPT ![t] = 0]
          /\ UNCHANGED <<errors, wpc>>
       \/ /\ WorkerRecordsError(t)
          /\ UNCHANGED <<ref, wops>>
    /\ UNCHANGED <<params, mainPc, started, joined, loop_i, counter, d,
                   key_counter, stop_event, timed_out, unexpected_caught,
                   actual, expected, warned, ret, can_start, latchVars,
                   raised_exc, nonScnVars>>

\* mutable_vs_container_race: content_modifier (even threads) appends to the
\* list it read from the ref, which is the list the ref holds now or one that
\* was swapped out meanwhile; container_swapper (odd threads) sets a new
\* one-element list
WorkerMutable(t) ==
    /\ Running(t)
    /\ scenario = "mutable_vs_container_race"
    /\ wops[t] = 1
    /\ \/ /\ IF t % 2 = 0
             THEN ref' \in {ref, ListOf(ref[2], IF ref[3] < MaxListLen
                                                THEN ref[3] + 1 ELSE ref[3])}
             ELSE \E v \in {0, 100} : ref' = ListOf(v, 1)
          /\ wops' = [wops EXCEPT ![t] = 0]
          /\ UNCHANGED <<errors, wpc>>
       \/ /\ WorkerRecordsError(t)
          /\ UNCHANGED <<ref, wops>>
    /\ UNCHANGED <<params, mainPc, started, joined, loop_i, counter, d,
                   key_counter, stop_event, timed_out, unexpected_caught,
                   actual, expected, warned, ret, can_start, latchVars,
                   raised_exc, nonScnVars>>

\* handle_vs_direct_ref_swap_race: handle_user (even threads) runs
\* handle.set(10); handle.compare_and_set(10, 20), direct_modifier (odd
\* threads) runs ref.set(30); ref.compare_and_set(30, 40), on the pooled
\* _underlying_volatile_ref
WorkerRefSwap(t) ==
    /\ Running(t)
    /\ scenario = "handle_vs_direct_ref_swap_race"
    /\ wops[t] \in {1, 2}
    /\ \/ /\ LET first == PyInt(IF t % 2 = 0 THEN 10 ELSE 30)
                 then  == PyInt(IF t % 2 = 0 THEN 20 ELSE 40)
             IN  ref' = IF wops[t] = 1 THEN first
                        ELSE CompareAndSet(ref, first, then)
          /\ wops' = [wops EXCEPT ![t] = IF @ = 1 THEN 2 ELSE 0]
          /\ UNCHANGED <<errors, wpc>>
       \/ /\ WorkerRecordsError(t)
          /\ UNCHANGED <<ref, wops>>
    /\ UNCHANGED <<params, mainPc, started, joined, loop_i, counter, d,
                   key_counter, stop_event, timed_out, unexpected_caught,
                   actual, expected, warned, ret, can_start, latchVars,
                   raised_exc, nonScnVars>>

\* race_condition_ref_vs_gc.hammer_thread: current = ref.get();
\* current.append(1); ref.compare_and_set(current, current), which leaves the
\* ref holding the same object
WorkerHammer(t) ==
    /\ Running(t)
    /\ scenario = "race_condition_ref_vs_gc"
    /\ t = HammerThread
    /\ wops[t] = 1
    /\ \/ /\ wops' = [wops EXCEPT ![t] = 0]
          /\ UNCHANGED <<errors, wpc>>
       \/ /\ WorkerRecordsError(t)
          /\ UNCHANGED wops
    /\ UNCHANGED <<params, mainPc, started, joined, loop_i, counter, d, ref,
                   key_counter, stop_event, timed_out, unexpected_caught,
                   actual, expected, warned, ret, can_start, latchVars,
                   raised_exc, nonScnVars>>

\* race_condition_ref_vs_gc.gc_thread: can_start.wait(); time.sleep(0.001);
\* del obj_to_race; gc.collect().  The ref still owns the list, so nothing
\* the hammer reads changes.
WorkerGcCollect(t) ==
    /\ Running(t)
    /\ scenario = "race_condition_ref_vs_gc"
    /\ t = GcThread
    /\ can_start
    /\ wpc' = [wpc EXCEPT ![t] = "done"]
    /\ UNCHANGED <<params, mainPc, started, joined, loop_i, wops, counter, d,
                   ref, key_counter, stop_event, errors, timed_out,
                   unexpected_caught, actual, expected, warned, ret, can_start,
                   latchVars, raised_exc, nonScnVars>>

\* ---- scenario_latch_decremented_by_reduce
\* latch.decrement(): at a positive count it takes one off; at zero or below
\* the subject either counts on or refuses
LatchDecrement(l) == IF l > 0 \/ counts_below_zero THEN l - 1 ELSE l

IsReduceWorker(t) == t < num_reduce_threads

\* reduce_worker: atomic_dict.reduce(data, malicious_aggregate), one item of
\* data per step: the callback decrements the latch and returns the sum that
\* reduce stores; or reduce raises, the handler prints the error and reads
\* current_latch_val = latch.get()
WorkerReduceItem(t) ==
    /\ Running(t)
    /\ scenario = "scenario_latch_decremented_by_reduce"
    /\ IsReduceWorker(t)
    /\ wops[t] < ops_per_thread
    /\ \/ /\ latch' = LatchDecrement(latch)
          /\ d' \in ReduceSumOutcomes(d, REDUCE_KEY)
          /\ wops' = [wops EXCEPT ![t] = @ + 1]
          /\ UNCHANGED <<wpc, drain, unexpected_caught>>
       \/ /\ unexpected_caught' = TRUE
          /\ drain' = [drain EXCEPT ![t] = DrainCount(latch)]
          /\ wpc' = [wpc EXCEPT ![t] = "draining"]
          /\ UNCHANGED <<latch, d, wops>>
    /\ UNCHANGED <<params, mainPc, started, joined, loop_i, counter, ref,
                   key_counter, stop_event, errors, timed_out, actual,
                   expected, warned, ret, can_start, raised_exc, nonScnVars>>

\* reduce_worker after its reduce returned
WorkerReduceReturn(t) ==
    /\ Running(t)
    /\ scenario = "scenario_latch_decremented_by_reduce"
    /\ IsReduceWorker(t)
    /\ wops[t] = ops_per_thread
    /\ wpc' = [wpc EXCEPT ![t] = "done"]
    /\ UNCHANGED <<params, mainPc, started, joined, loop_i, wops, counter, d,
                   ref, key_counter, stop_event, errors, timed_out,
                   unexpected_caught, actual, expected, warned, ret, can_start,
                   latchVars, raised_exc, nonScnVars>>

\* reduce_worker's handler: for _ in range(current_latch_val):
\* latch.decrement(), inside try / except Exception: pass
WorkerDrain(t) ==
    /\ t \in Workers
    /\ wpc[t] = "draining"
    /\ IF drain[t] = 0
       THEN /\ wpc' = [wpc EXCEPT ![t] = "done"]
            /\ UNCHANGED latchVars
       ELSE \/ /\ latch' = LatchDecrement(latch)
               /\ drain' = [drain EXCEPT ![t] = @ - 1]
               /\ UNCHANGED wpc
            \/ \* a refused decrement raises: except Exception: pass
               /\ latch <= 0
               /\ ~counts_below_zero
               /\ wpc' = [wpc EXCEPT ![t] = "done"]
               /\ UNCHANGED latchVars
    /\ UNCHANGED <<params, mainPc, started, joined, loop_i, wops, counter, d,
                   ref, key_counter, stop_event, errors, timed_out,
                   unexpected_caught, actual, expected, warned, ret, can_start,
                   raised_exc, nonScnVars>>

\* wait_worker: latch.wait() returns once the count has reached zero
WorkerWaitReleased(t) ==
    /\ Running(t)
    /\ scenario = "scenario_latch_decremented_by_reduce"
    /\ ~IsReduceWorker(t)
    /\ latch <= 0
    /\ wpc' = [wpc EXCEPT ![t] = "done"]
    /\ UNCHANGED <<params, mainPc, started, joined, loop_i, wops, counter, d,
                   ref, key_counter, stop_event, errors, timed_out,
                   unexpected_caught, actual, expected, warned, ret, can_start,
                   latchVars, raised_exc, nonScnVars>>

\* fast_iter_vs_mutation_race.iterator_worker: one pass over its partition; an
\* exception is caught and printed
WorkerIterate(t) ==
    /\ Running(t)
    /\ scenario = "fast_iter_vs_mutation_race"
    /\ t < num_iter_threads
    /\ ~stop_event
    /\ unexpected_caught' \in {unexpected_caught, TRUE}
    /\ UNCHANGED <<params, mainPc, started, joined, loop_i, wpc, wops, counter,
                   d, ref, key_counter, stop_event, errors, timed_out, actual,
                   expected, warned, ret, can_start, latchVars, raised_exc,
                   nonScnVars>>

\* fast_iter_vs_mutation_race.chaos_worker: one loop iteration, a set of a
\* random key (60%) or a delete whose KeyError is swallowed (40%)
WorkerChaos(t) ==
    /\ Running(t)
    /\ scenario = "fast_iter_vs_mutation_race"
    /\ t >= num_iter_threads
    /\ ~stop_event
    /\ \E key \in 0..key_counter[t] :
          \/ /\ key_counter[t] < num_iter_threads * PrepopPerIterThread + MaxChaosSets
             /\ d' \in SetItemOutcomes(d, key, key_counter[t])
             /\ key_counter' = [key_counter EXCEPT ![t] = @ + 1]
          \/ /\ d' \in (IF key \in DOMAIN d THEN DelItemOutcomes(d, key) ELSE {d})
             /\ UNCHANGED key_counter
    /\ UNCHANGED <<params, mainPc, started, joined, loop_i, wpc, wops, counter,
                   ref, stop_event, errors, timed_out, unexpected_caught,
                   actual, expected, warned, ret, can_start, latchVars, raised_exc,
                   nonScnVars>>

\* a looping worker sees the stop flag set and returns
WorkerLoopExit(t) ==
    /\ Running(t)
    /\ scenario \in StopFlagScenarios \/ InErrorListLoop(t)
    /\ wops[t] = 0
    /\ stop_event
    /\ wpc' = [wpc EXCEPT ![t] = "done"]
    /\ UNCHANGED <<params, mainPc, started, joined, loop_i, wops, counter, d,
                   ref, key_counter, stop_event, errors, timed_out,
                   unexpected_caught, actual, expected, warned, ret, can_start, latchVars, raised_exc,
                   nonScnVars>>

\* A call into a faulty subject never returns: the worker never finishes.
WorkerHang(t) ==
    /\ Running(t)
    /\ subject = "faulty"
    /\ IF InErrorListLoop(t) THEN wops[t] >= 1
       ELSE IF scenario = "race_condition_ref_vs_gc" THEN FALSE
       ELSE IF scenario \in StopFlagScenarios THEN ~stop_event
       ELSE IF scenario = "scenario_latch_decremented_by_reduce" THEN FALSE
       ELSE wops[t] < OpsOf(scenario)
    /\ wpc' = [wpc EXCEPT ![t] = "hung"]
    /\ UNCHANGED <<params, mainPc, started, joined, loop_i, wops, counter, d,
                   ref, key_counter, stop_event, errors, timed_out,
                   unexpected_caught, actual, expected, warned, ret, can_start, latchVars, raised_exc,
                   nonScnVars>>

MainNext ==
    \/ Call
    \/ StartThread
    \/ SetStop
    \/ JoinThread
    \/ JoinTimeout
    \/ OpenGate
    \/ JoinGc
    \/ JoinHammer
    \/ Verify
    \/ VerifyGcRace
    \/ VerifyLatch
    \/ Grow
    \/ Shrink
    \/ Reuse

WorkerNext(t) ==
    \/ WorkerIncrement(t)
    \/ WorkerReduceSum(t)
    \/ WorkerInsert(t)
    \/ WorkerWhitelistedOp(t)
    \/ WorkerDiesBeforeTry(t)
    \/ WorkerHandleIncrement(t)
    \/ WorkerReturn(t)
    \/ WorkerLoopTest(t)
    \/ WorkerCas(t)
    \/ WorkerMutable(t)
    \/ WorkerRefSwap(t)
    \/ WorkerHammer(t)
    \/ WorkerGcCollect(t)
    \/ WorkerReduceItem(t)
    \/ WorkerReduceReturn(t)
    \/ WorkerDrain(t)
    \/ WorkerWaitReleased(t)
    \/ WorkerIterate(t)
    \/ WorkerChaos(t)
    \/ WorkerLoopExit(t)
    \/ WorkerHang(t)

Next == MainNext \/ \E t \in 0..(MaxThreads - 1) : WorkerNext(t)

Spec == Init /\ [][Next]_vars

\* Threads are scheduled fairly: a thread that can take a step eventually
\* takes one.
FairSpec ==
    /\ Spec
    /\ WF_vars(MainNext)
    /\ \A t \in 0..(MaxThreads - 1) : WF_vars(WorkerNext(t))

\* ---- single scenarios under fair scheduling
\* race_condition_ref_vs_gc alone
GcRaceInit == Init /\ scenario = "race_condition_ref_vs_gc"

GcRaceMain ==
    \/ Call
    \/ StartThread
    \/ OpenGate
    \/ JoinGc
    \/ SetStop
    \/ JoinHammer
    \/ VerifyGcRace

GcRaceWorker(t) ==
    \/ WorkerLoopTest(t)
    \/ WorkerHammer(t)
    \/ WorkerGcCollect(t)
    \/ WorkerLoopExit(t)
    \/ WorkerHang(t)

FairSpecGcRace ==
    /\ GcRaceInit
    /\ [][GcRaceMain \/ \E t \in 0..(MaxThreads - 1) : GcRaceWorker(t)]_vars
    /\ WF_vars(GcRaceMain)
    /\ \A t \in 0..(MaxThreads - 1) : WF_vars(GcRaceWorker(t))

\* the scenarios whose workers loop until a stop flag is set, against a
\* subject whose operations return
StopFlagInit == Init /\ scenario \in StopFlagScenarios /\ subject = "sound"

StopFlagMain ==
    \/ Call
    \/ StartThread
    \/ SetStop
    \/ JoinThread
    \/ JoinTimeout
    \/ Verify

StopFlagWorker(t) ==
    \/ WorkerLoopTest(t)
    \/ WorkerCas(t)
    \/ WorkerMutable(t)
    \/ WorkerRefSwap(t)
    \/ WorkerIterate(t)
    \/ WorkerChaos(t)
    \/ WorkerLoopExit(t)

FairSpecStopFlag ==
    /\ StopFlagInit
    /\ [][StopFlagMain \/ \E t \in 0..(MaxThreads - 1) : StopFlagWorker(t)]_vars
    /\ WF_vars(StopFlagMain)
    /\ \A t \in 0..(MaxThreads - 1) : WF_vars(StopFlagWorker(t))

\* scenario_latch_decremented_by_reduce alone
LatchInit == Init /\ scenario = "scenario_latch_decremented_by_reduce"

LatchMain ==
    \/ Call
    \/ StartThread
    \/ JoinThread
    \/ VerifyLatch

LatchWorker(t) ==
    \/ WorkerReduceItem(t)
    \/ WorkerReduceReturn(t)
    \/ WorkerDrain(t)
    \/ WorkerWaitReleased(t)

FairSpecLatch ==
    /\ LatchInit
    /\ [][LatchMain \/ \E t \in 0..(MaxThreads - 1) : LatchWorker(t)]_vars
    /\ WF_vars(LatchMain)
    /\ \A t \in 0..(MaxThreads - 1) : WF_vars(LatchWorker(t))

KeysNext == KeysCall \/ KeysShiftError \/ KeysIterate

SpecKeys == KeysInit /\ [][KeysNext]_vars

\* ------------------------------------------ the scenario-mode runner script
\* for i in range(num_scenarios)
num_scenarios == 10

\* what a scenario function can raise in the thread that called it:
\* RuntimeError from its error list, AssertionError from its checks, KeyError
\* from a lookup, or whatever a worker recorded (raise errors[0])
ScenarioRaises == ExceptionKinds \cup {"AssertionError"}

\* A plausible change: the runner catches RuntimeError only.
CaughtOnlyRuntimeError(e) == e = "RuntimeError"

\* except Exception as e_scenario: every exception class a scenario raises
\* derives from Exception
CaughtByRunner(e) == e \in ScenarioRaises

\* what a scenario function returns: True (survived) or False (skipped, or
\* did not stay consistent)
ScenarioReturns == {"True", "False"}

\* A plausible slip: a False result is reported as a failure.
ReportFalseAsFailed(value) ==
    IF value = "False" THEN "FAILED" ELSE "completed"

\* `_scenario_func()` is called as a statement: its value is dropped and the
\* next line prints "completed"
ReportOfReturn(value) == "completed"

\* the script as generated; the aggregator's name lists have been read
RunStart ==
    /\ run_pc = "names"
    /\ all_scenario_names \in 0..MaxScenarioNames
    /\ run_i = 0
    /\ attempted = 0
    /\ completed = 0
    /\ failed = 0
    /\ not_found = 0
    /\ exit_status = -1
    /\ call_result = "none"

\* if not _all_scenario_names: print(...); sys.exit(1)
RunCheckNames ==
    /\ run_pc = "names"
    /\ IF all_scenario_names = 0
       THEN run_pc' = "exited" /\ exit_status' = 1
       ELSE run_pc' = "select" /\ UNCHANGED exit_status
    /\ UNCHANGED <<all_scenario_names, run_i, attempted, completed, failed,
                   not_found, call_result, nonRunVars>>

\* for i in range(10): scenario_name = random.choice(_all_scenario_names); the
\* script ends after the last iteration
RunSelect ==
    /\ run_pc = "select"
    /\ IF run_i < num_scenarios
       THEN /\ attempted' = attempted + 1
            /\ run_pc' = "try"
            /\ UNCHANGED exit_status
       ELSE /\ run_pc' = "exited"
            /\ exit_status' = 0
            /\ UNCHANGED attempted
    /\ UNCHANGED <<all_scenario_names, run_i, completed, failed, not_found,
                   call_result, nonRunVars>>

\* the body of the try: the lookup of the function in the scenario dicts and
\* its call, which returns, raises or never returns
RunScenario ==
    /\ run_pc = "try"
    /\ \/ /\ run_pc' = "collect"
          /\ not_found' = not_found + 1
          /\ call_result' = "none"
          /\ UNCHANGED <<completed, failed, exit_status>>
       \/ \E value \in ScenarioReturns :
             /\ run_pc' = "collect"
             /\ call_result' = value
             /\ completed' = completed
                    + (IF ReportOfReturn(value) = "completed" THEN 1 ELSE 0)
             /\ failed' = failed
                    + (IF ReportOfReturn(value) = "FAILED" THEN 1 ELSE 0)
             /\ UNCHANGED <<not_found, exit_status>>
       \/ \E e \in ScenarioRaises :
             /\ call_result' = "none"
             /\ IF CaughtByRunner(e)
                THEN /\ run_pc' = "collect"
                     /\ failed' = failed + 1
                     /\ UNCHANGED <<not_found, completed, exit_status>>
                ELSE /\ run_pc' = "crashed"
                     /\ exit_status' = 1
                     /\ UNCHANGED <<not_found, completed, failed>>
       \/ /\ run_pc' = "hung"
          /\ UNCHANGED <<not_found, completed, failed, exit_status,
                         call_result>>
    /\ UNCHANGED <<all_scenario_names, run_i, attempted, nonRunVars>>

\* collect()  # GC between scenarios
RunCollect ==
    /\ run_pc = "collect"
    /\ run_i' = run_i + 1
    /\ run_pc' = "select"
    /\ call_result' = "none"
    /\ UNCHANGED <<all_scenario_names, attempted, completed, failed, not_found,
                   exit_status, nonRunVars>>

RunInit == RunStart /\ KeysIdle /\ ScnIdle /\ ObjStart /\ WeirdIdle /\ LaterIdle

RunNext == RunCheckNames \/ RunSelect \/ RunScenario \/ RunCollect

SpecRunner == RunInit /\ [][RunNext]_vars

\* The script's only thread keeps running.
FairSpecRunner == SpecRunner /\ WF_vars(RunNext)


\* ------------------------------------------------ claims: colliding keys
Targeted == 0..(num_buckets_to_fill - 1)

Count(b) == IF b \in DOMAIN results THEN Len(results[b]) ELSE 0

AllTargetedAtQuota == \A b \in Targeted : Count(b) = keys_per_bucket

\* C1: at every point of the search, and so in every complete or partial
\* result, each key listed under a bucket hashes to that bucket on direct
\* recomputation: rehash(k) >> (HashBits - log_size) = bucket.
C1_KeysHashToTheirBucket ==
    \A b \in DOMAIN results : \A j \in 1..Len(results[b]) :
        ShiftRight(Rehash(results[b][j]), HashBits - log_size) = b

\* C1 witness: a partial (ceiling-exhausted) result that holds a bucket with
\* two keys.
C1_PartialResultWitness ==
    /\ kpc = "returned"
    /\ exhausted_warning
    /\ \E b \in DOMAIN results : Len(results[b]) >= 2

\* C2: the scan stops at the first candidate after which every targeted
\* bucket holds keys_per_bucket keys (so it is never still looping once they
\* all do), and when it stops through break every targeted bucket holds
\* exactly keys_per_bucket keys and nothing beyond candidate i was examined.
C2_StopsAtFirstFullCandidate ==
    /\ (kpc = "loop" /\ examined >= 1) => ~AllTargetedAtQuota
    /\ (kpc = "returned" /\ broke) => (AllTargetedAtQuota /\ examined = i + 1)

\* C3: at most SearchCeiling candidates are examined, and on return the
\* warning was printed exactly when the ceiling was reached with some
\* targeted bucket still under its quota.
C3_WarningIffCeilingUnderQuota ==
    /\ examined <= SearchCeiling
    /\ kpc = "returned" =>
          (exhausted_warning <=>
              (examined = SearchCeiling
                 /\ \E b \in Targeted : Count(b) < keys_per_bucket))

\* ---------------------------------------------------- claims: scenarios
Terminal == {"returned", "raised"}

Product == num_threads * ops_per_thread

RECURSIVE SumOps(_)
SumOps(n) == IF n = 0 THEN 0 ELSE wops[n - 1] + SumOps(n - 1)

\* C4: with a sound subject (atomic increments), the value read after
\* start_and_join in dogpile_on_atomicint and in dogpile_on_atomicdict_key
\* equals num_threads * ops_per_thread under every interleaving.
C4_FinalValueIsProduct ==
    (/\ mainPc = "returned"
     /\ subject = "sound"
     /\ scenario \in {"dogpile_on_atomicint", "dogpile_on_atomicdict_key"})
        => actual = PyInt(Product)

\* C5 as stated: a contention scenario returns True only when the final value
\* (or length) equals num_threads * ops_per_thread.
C5_TrueOnlyIfPostcondition ==
    (/\ mainPc = "returned"
     /\ ret = "True"
     /\ scenario \in ContentionScenarios)
        => actual = PyInt(Product)

\* C5 amended: a contention scenario that gets past its join returns True
\* whether or not the final value equals the expected one; the deviation
\* shows only in the warning.
C5_TrueWhateverTheFinalValue ==
    (mainPc = "returned" /\ scenario \in ContentionScenarios)
        => (ret = "True" /\ (warned <=> actual # PyInt(Product)))

\* C5 witness: a scenario returned True with a final value that differs from
\* the product, two workers having run.
C5_DeviationReturnedTrue ==
    /\ mainPc = "returned"
    /\ scenario = "dogpile_on_atomicint"
    /\ num_threads = 2
    /\ actual # PyInt(Product)
    /\ ret = "True"

\* C6: whenever the final value or length read by dogpile_on_atomicint,
\* dogpile_on_atomicdict_key, migration_storm or
\* scenario_grow_shrink_and_reuse differs from the expected one, the warning
\* has been printed when the scenario returns.
C6_DeviationIsFlagged ==
    (/\ mainPc = "returned"
     /\ scenario \in ContentionScenarios \cup {"scenario_grow_shrink_and_reuse"}
     /\ actual # PyInt(IF scenario = "scenario_grow_shrink_and_reuse"
                       THEN ops_per_thread ELSE Product))
        => warned

\* C6 witness: scenario_grow_shrink_and_reuse returned with a length above
\* num_items (a delete was lost) and the warning printed.
C6_FlaggedDeviationWitness ==
    /\ mainPc = "returned"
    /\ scenario = "scenario_grow_shrink_and_reuse"
    /\ actual[2] > ops_per_thread
    /\ warned

C8_DisjointRangesFullLength ==
    (scenario = "migration_storm" /\ subject = "sound") =>
        /\ \A t \in Workers :
              wpc[t] = "done" =>
                 {k \in DOMAIN d : d[k] = t}
                    = (t * ops_per_thread)..((t + 1) * ops_per_thread - 1)
        /\ Cardinality(DOMAIN d) = SumOps(num_threads)
        /\ mainPc = "returned" => actual = PyInt(Product)

\* C8 witness: two workers with two keys each, joined and verified.
C8_TwoByTwoWitness ==
    /\ scenario = "migration_storm"
    /\ subject = "sound"
    /\ mainPc = "returned"
    /\ num_threads >= 2
    /\ ops_per_thread >= 2
    /\ actual = PyInt(Product)

\* C9: a scenario with timed joins does not return True when a worker was
\* still running at the moment its join timeout expired.
C9_TimeoutIsFailure ==
    (/\ mainPc = "returned"
     /\ scenario \in TimedJoinScenarios
     /\ ret = "True")
        => timed_out = {}

\* C10: under fair scheduling the thread that called a scenario joined
\* through ThreadSet.start_and_join or through explicit t.join() eventually
\* returns, even if a worker never finishes.
C10_JoinPhaseReturns ==
    (scenario \in ContentionScenarios \cup {"fast_iter_vs_mutation_race"})
        => <>(mainPc \in Terminal)

\* ------------------------------------------- the hashable-key classes
\* A plausible change: __hash__ returns the stored _initial_hash.
StableHash(k) == unstable[k]

\* UnstableHash.__hash__: return next(_unstable_hash_counter)
UnstableHash(k) == unstable_hash_counter

\* UnstableHash.__eq__ between two UnstableHash instances (isinstance holds)
UnstableEq(a, b) == unstable[a] = unstable[b]

\* AlwaysUnequalConstantHash.__hash__: return 42
ConstantHash(k) == 42

\* A plausible change: __eq__ returns True.
AlwaysEqual(a, b) == TRUE

\* AlwaysUnequalConstantHash.__eq__
AlwaysUnequal(a, b) == FALSE

\* the key comparison of a map lookup: equal hashes, then identity or __eq__
SameKey(e, k) ==
    /\ ConstantHash(e) = ConstantHash(k)
    /\ e = k \/ AlwaysUnequal(e, k)

\* UnstableHash(): self._initial_hash = next(_unstable_hash_counter)
NewUnstableHash ==
    /\ Len(unstable) < MaxKeyObjects
    /\ unstable' = Append(unstable, unstable_hash_counter)
    /\ unstable_hash_counter' = unstable_hash_counter + 1
    /\ UNCHANGED <<raisers, hash_log, unequal_made, collision_dict, inserted,
                   nonObjVars>>

\* ExceptionRaiser.__init__: self._id = next(_unstable_hash_counter)
NewExceptionRaiser ==
    /\ raisers < MaxKeyObjects
    /\ raisers' = raisers + 1
    /\ unstable_hash_counter' = unstable_hash_counter + 1
    /\ UNCHANGED <<unstable, hash_log, unequal_made, collision_dict, inserted,
                   nonObjVars>>

\* hash(k) for an UnstableHash instance k
HashCall ==
    /\ Len(hash_log) < MaxHashCalls
    /\ \E k \in DOMAIN unstable :
          hash_log' = Append(hash_log, UnstableHash(k))
    /\ unstable_hash_counter' = unstable_hash_counter + 1
    /\ UNCHANGED <<unstable, raisers, unequal_made, collision_dict, inserted,
                   nonObjVars>>

\* AlwaysUnequalConstantHash()
NewAlwaysUnequal ==
    /\ unequal_made < MaxKeyObjects
    /\ unequal_made' = unequal_made + 1
    /\ UNCHANGED <<unstable_hash_counter, unstable, raisers, hash_log,
                   collision_dict, inserted, nonObjVars>>

\* collision_hell_dict[k] = i for an AlwaysUnequalConstantHash instance k: the
\* value of an entry with the same key is replaced, else an entry is added
SetItemUnequal ==
    /\ \E k \in 1..unequal_made :
          /\ collision_dict' = IF \E e \in collision_dict : SameKey(e, k)
                               THEN collision_dict
                               ELSE collision_dict \cup {k}
          /\ inserted' = inserted \cup {k}
    /\ UNCHANGED <<unstable_hash_counter, unstable, raisers, hash_log,
                   unequal_made, nonObjVars>>

ObjInit == ObjStart /\ KeysIdle /\ ScnIdle /\ RunIdle /\ WeirdIdle /\ LaterIdle

ObjNext ==
    \/ NewUnstableHash
    \/ NewExceptionRaiser
    \/ HashCall
    \/ NewAlwaysUnequal
    \/ SetItemUnequal

SpecObjects == ObjInit /\ [][ObjNext]_vars

\* ------------------------------------------------- create_weird_subclass
\* the classes the module subclasses
WeirdBases == {"AtomicInt64", "CountDownLatch", "Constant"}

\* TARGET_METHODS, and the two methods overridden on the Constant type
TargetMethods(base) ==
    IF base = "AtomicInt64" THEN {"get", "set", "__add__"}
    ELSE IF base = "CountDownLatch" THEN {"wait", "decrement", "get"}
    ELSE {"__repr__", "__eq__"}

\* what can be invoked on an instance: the targeted methods and what every
\* object has
Operations(base) == TargetMethods(base) \cup {"__eq__", "__hash__", "__repr__"}

\* malicious_behaviors
Behaviors == {"raise_ValueError", "return_None"}

\* the positional arguments of an invocation
ArgLists == {<<>>, <<"arg">>}

\* type(class_name, (base_class,), namespace): the class gets the namespace
\* it is given, and a class that defines __eq__ without __hash__ gets
\* __hash__ = None
TypeNew(namespace) ==
    IF "__eq__" \in DOMAIN namespace /\ "__hash__" \notin DOMAIN namespace
    THEN [n \in DOMAIN namespace \cup {"__hash__"} |->
             IF n \in DOMAIN namespace THEN namespace[n] ELSE "None"]
    ELSE namespace

\* {method_name: overridden_method, "__doc__": f"Weird subclass of ..."}
Namespace(m) ==
    [n \in {m, "__doc__"} |-> IF n = "__doc__" THEN "doc" ELSE "overridden_method"]

\* attribute lookup on the type of an instance: the new class first, then the
\* base class
Lookup(op) == IF op \in DOMAIN new_class THEN new_class[op] ELSE "base"

\* overridden_method: return behavior_func(method_name, self, *args, **kwargs)
OverriddenMethod(args) == <<"behavior", behavior_name, method_name, "self", args>>

\* the module as imported
WeirdStart ==
    /\ weird_pc = "start"
    /\ base_class = "none"
    /\ method_name = "none"
    /\ behavior_name = "none"
    /\ new_class = <<>>
    /\ invoked = <<>>
    /\ result = <<>>

\* create_weird_subclass(base_class, method_name, behavior_func, behavior_name)
CreateWeirdSubclass ==
    /\ weird_pc = "start"
    /\ base_class' \in WeirdBases
    /\ method_name' \in TargetMethods(base_class')
    /\ behavior_name' \in Behaviors
    /\ new_class' = TypeNew(Namespace(method_name'))
    /\ weird_pc' = "created"
    /\ UNCHANGED <<invoked, result, nonWeirdVars>>

\* an operation invoked on an instance of the new class
InvokeOperation ==
    /\ weird_pc \in {"created", "called"}
    /\ \E op \in Operations(base_class), args \in ArgLists :
          /\ invoked' = <<op, args>>
          /\ result' = IF Lookup(op) = "overridden_method"
                       THEN OverriddenMethod(args)
                       ELSE IF Lookup(op) = "None"
                       THEN <<"TypeError", "unhashable type">>
                       ELSE <<"base", base_class, op, "self", args>>
    /\ weird_pc' = "called"
    /\ UNCHANGED <<base_class, method_name, behavior_name, new_class,
                   nonWeirdVars>>

WeirdInit == WeirdStart /\ KeysIdle /\ ScnIdle /\ RunIdle /\ ObjStart /\ LaterIdle

WeirdNext == CreateWeirdSubclass \/ InvokeOperation

SpecWeird == WeirdInit /\ [][WeirdNext]_vars

\* The position of worker t, for formulas that also range over states in
\* which the scenario has no such worker.
PcOf(t) == IF t \in DOMAIN wpc THEN wpc[t] ELSE "absent"

\* C11: race_condition_ref_vs_gc always terminates under fair scheduling: the
\* main thread opens the gate, sets the stop flag and gets past both bounded
\* joins even if a thread never finishes; the hammer thread leaves its loop
\* once the flag is set or at its first exception unless it is stuck inside
\* the subject; the call returns True or raises the first exception the
\* hammer thread recorded.
C11_GcRaceTerminates ==
    /\ <>(mainPc \in Terminal)
    /\ [](mainPc \in Terminal => can_start /\ stop_event)
    /\ [](mainPc = "returned" => ret = "True")
    /\ [](mainPc = "raised" => errors # <<>> /\ raised_exc = <<errors[1]>>)
    /\ (stop_event /\ PcOf(HammerThread) = "running")
          ~> (PcOf(HammerThread) # "running")
    /\ [](errors # <<>> => PcOf(HammerThread) = "done")

\* C11 witness: the call returned although the hammer thread never finished,
\* its join having timed out.
C11_ReturnedPastStuckHammer ==
    /\ scenario = "race_condition_ref_vs_gc"
    /\ mainPc = "returned"
    /\ ret = "True"
    /\ HammerThread \in timed_out
    /\ wpc[HammerThread] = "hung"

\* C12: in the four stop-flag scenarios, against a subject whose operations
\* return, the main thread sets the stop flag on every execution, after all
\* workers were started, and every looping worker finishes once the flag is
\* set.
C12_StopFlagEndsWorkers ==
    /\ <>stop_event
    /\ [](stop_event => started = num_threads)
    /\ stop_event ~> (\A t \in DOMAIN wpc : wpc[t] = "done")

\* C12 witness: the flag is set and two looping workers have finished.
C12_FlagSetAllWorkersDone ==
    /\ scenario \in StopFlagScenarios
    /\ stop_event
    /\ num_threads >= 2
    /\ errors = <<>>
    /\ \A t \in Workers : wpc[t] = "done"

\* C13: in the scenarios that keep an error list, a call in which some worker
\* recorded an exception does not return True, whatever the interleaving and
\* also when a join timed out.
C13_RecordedErrorIsRaised ==
    (/\ scenario \in TimedJoinScenarios
     /\ mainPc = "returned"
     /\ ret = "True")
        => errors = <<>>

\* C14: with a subject that works as documented,
\* scenario_latch_decremented_by_reduce does not deadlock under fair
\* scheduling: start_and_join returns, which it does only when every wait
\* worker was released and every reduce worker has finished, whether a reduce
\* worker completes its reduce or fails and drains the latch.
C14_LatchNeverDeadlocks ==
    /\ <>(mainPc \in Terminal)
    /\ [](mainPc \in {"verify", "raised"} \/ ret = "True"
            => latch <= 0 /\ \A t \in DOMAIN wpc : wpc[t] = "done")

\* C14 witness: a reduce worker failed and drained the latch, the wait worker
\* was released and the join returned.
C14_WaiterReleasedAfterDrain ==
    /\ scenario = "scenario_latch_decremented_by_reduce"
    /\ subject = "sound"
    /\ mainPc \in Terminal
    /\ unexpected_caught
    /\ num_reduce_threads < num_threads
    /\ \A t \in Workers : wpc[t] = "done"

\* C15: in scenario_latch_decremented_by_reduce, once the threads are joined,
\* the latch count is 0 and the value under the reduce key is
\* num_reduce_threads * num_items_per_reduce whenever the subject works as
\* documented and no reduce worker failed; the call returns True only if both
\* hold and raises AssertionError otherwise.
C15_LatchAndSumAgree ==
    (scenario = "scenario_latch_decremented_by_reduce"
       /\ (mainPc \in {"verify", "raised"} \/ ret = "True"))
    => LET both == /\ latch = 0
                   /\ DictGet(d, REDUCE_KEY)
                        = PyInt(num_reduce_threads * ops_per_thread)
       IN  /\ \A t \in Workers : wpc[t] = "done"
           /\ subject = "sound" /\ ~unexpected_caught => both
           /\ mainPc = "returned" => both
           /\ mainPc = "raised" => ~both /\ raised_exc = <<"AssertionError">>

\* C15 witness: two reduce workers completed and the call returned True.
C15_TwoReducersReturnedTrue ==
    /\ scenario = "scenario_latch_decremented_by_reduce"
    /\ mainPc = "returned"
    /\ ret = "True"
    /\ num_reduce_threads >= 2
    /\ ~unexpected_caught

\* C16: running a scenario leaves the catalog pools as catalog construction
\* left them; in particular the pooled AtomicRef behind
\* "handle_to_volatile_ref", which handle_vs_direct_ref_swap_race takes from
\* tricky_thread_handles, still holds the value it was constructed with.
C16_PooledRefKeepsItsValue ==
    (scenario = "handle_vs_direct_ref_swap_race")
        => ref = PyInt(VolatileRefInitial)

\* C17: in the scenario-mode runner an exception that leaves a scenario call
\* is reported as FAILED and the loop goes on; with at least one registered
\* name the script that ends has made exactly 10 selections, however many of
\* them failed, and a script none of whose scenario calls blocks for ever does
\* end; the status is 1, with nothing run, exactly when no name is registered.
C17_RunnerSurvivesFailures ==
    /\ [](attempted = completed + failed + not_found
                        + (IF run_pc \in {"try", "hung"} THEN 1 ELSE 0))
    /\ [](run_pc # "crashed")
    /\ [](run_pc = "exited" /\ all_scenario_names > 0
            => attempted = num_scenarios /\ exit_status = 0)
    /\ [](exit_status = 1 <=> run_pc = "exited" /\ all_scenario_names = 0)
    /\ [](exit_status = 1 => attempted = 0)
    /\ [](run_pc # "hung") => <>(run_pc = "exited")

\* C17 witness: the script ended after 10 selections of which every call
\* raised.
C17_TenFailuresTenSelections ==
    /\ run_pc = "exited"
    /\ attempted = num_scenarios
    /\ failed = num_scenarios

\* C18: any two calls of UnstableHash.__hash__, on the same or on different
\* instances and whatever is constructed in between, return different values;
\* equality of UnstableHash instances is reflexive, symmetric and transitive,
\* holds between an instance and itself only, and is the same before and after
\* every hash call.
C18_UnstableHashStableEq ==
    /\ [](\A m, n \in DOMAIN hash_log : m # n => hash_log[m] # hash_log[n])
    /\ [](\A a, b, c \in DOMAIN unstable :
             /\ UnstableEq(a, a)
             /\ UnstableEq(a, b) => UnstableEq(b, a)
             /\ UnstableEq(a, b) /\ UnstableEq(b, c) => UnstableEq(a, c)
             /\ UnstableEq(a, b) <=> a = b)
    /\ [][\A a, b \in DOMAIN unstable :
             UnstableEq(a, b)' = UnstableEq(a, b)]_vars

\* C18 witness: one instance was hashed twice, another once, with a
\* construction in between.
C18_ThreeHashCallsTwoInstances ==
    /\ Len(unstable) = 2
    /\ Len(hash_log) = 3
    /\ raisers >= 1
    /\ hash_log[1] < unstable[2]
    /\ unstable[2] < hash_log[2]

\* C19: the map into which K distinct AlwaysUnequalConstantHash instances
\* were inserted, any of them any number of times, has length K.
C19_LengthIsDistinctInstances ==
    Cardinality(collision_dict) = Cardinality(inserted)

\* C19 witness: two distinct instances were inserted and the length is 2.
C19_TwoInstancesLengthTwo ==
    /\ Cardinality(inserted) = 2
    /\ Cardinality(collision_dict) = 2

\* C20: on an instance of a class made by create_weird_subclass(base, m,
\* behavior, name), invoking m gives behavior(m, instance, *args) with the
\* call's own arguments, and invoking any other operation gives what the base
\* class gives.
C20_ExactlyOneOperationOverridden ==
    (weird_pc = "called")
        => result = IF invoked[1] = method_name
                    THEN <<"behavior", behavior_name, method_name, "self",
                           invoked[2]>>
                    ELSE <<"base", base_class, invoked[1], "self", invoked[2]>>

\* ------------------------------------------------------ super_caller_abuse
\* the classes abuse_super is injected into (TARGET_METHODS)
AbuseBases == {"AtomicInt64", "CountDownLatch"}

\* getattr(super(self.__class__, self), method_name, None): the attribute of
\* the base class, or None when the base class has none of that name
GetattrSuper(base, name) ==
    IF name \in Operations(base) THEN "callable" ELSE "None"

\* super_method(9999, "extra_arg", bogus_kwarg=True)
WrongArguments == <<"9999", "extra_arg", "bogus_kwarg=True">>

\* the arguments of the next call of super_method: the caller's twice, then
\* the wrong ones
NextArguments(calls, args) == IF Len(calls) < 2 THEN args ELSE WrongArguments

\* what a call into the base class does: it returns, or raises
SuperOutcomes == {"returns", "TypeError", "ValueError", "KeyboardInterrupt"}

CaughtOnlyTypeError(e) == e = "TypeError"

\* except Exception as e: KeyboardInterrupt is no Exception
CaughtByAbuse(e) == e \in {"TypeError", "ValueError"}

\* the behaviour is invoked through overridden_method
AbuseStart ==
    /\ sca_pc = "start"
    /\ sca_base \in AbuseBases
    /\ sca_method_name \in TargetMethods(sca_base) \cup {"no_such_method"}
    /\ sca_args \in ArgLists
    /\ super_method = "unset"
    /\ super_calls = <<>>
    /\ sca_return = <<"unset">>
    /\ sca_raised = "none"

\* super_method = getattr(...); if callable(super_method): ...; return None
AbuseGetattr ==
    /\ sca_pc = "start"
    /\ super_method' = GetattrSuper(sca_base, sca_method_name)
    /\ IF super_method' = "callable"
       THEN sca_pc' = "call" /\ UNCHANGED sca_return
       ELSE sca_pc' = "returned" /\ sca_return' = PyNone
    /\ UNCHANGED <<sca_base, sca_method_name, sca_args, super_calls,
                   sca_raised, nonAbuseVars>>

\* one of the three calls of super_method, inside try ... except Exception
AbuseCall ==
    /\ sca_pc = "call"
    /\ super_calls' = Append(super_calls, NextArguments(super_calls, sca_args))
    /\ \E out \in SuperOutcomes :
          IF out = "returns"
          THEN /\ IF Len(super_calls') = 3
                  THEN sca_pc' = "returned" /\ sca_return' = PyNone
                  ELSE UNCHANGED <<sca_pc, sca_return>>
               /\ UNCHANGED sca_raised
          ELSE IF CaughtByAbuse(out)
          THEN /\ sca_pc' = "returned"
               /\ sca_return' = <<"exception", out>>
               /\ UNCHANGED sca_raised
          ELSE /\ sca_pc' = "propagated"
               /\ sca_raised' = out
               /\ UNCHANGED sca_return
    /\ UNCHANGED <<sca_base, sca_method_name, sca_args, super_method,
                   nonAbuseVars>>

AbuseInit == AbuseStart /\ EarlierIdle /\ CatIdle /\ StaleIdle /\ AggIdle /\
    HcbIdle /\ AgainIdle /\ RwfIdle /\ PclIdle /\ RandIdle /\ HellIdle /\
    ThkIdle /\ ChurnIdle

AbuseNext == AbuseGetattr \/ AbuseCall

SpecAbuse == AbuseInit /\ [][AbuseNext]_vars

\* the argument lists of the calls super_caller_abuse makes when none raises
AbuseSchedule == <<sca_args, sca_args, WrongArguments>>

\* C21: super_caller_abuse calls the inherited operation with the caller's
\* arguments twice and then with the wrong arguments, stopping at the first
\* call that raises; it returns the exception raised if one was raised and it
\* is an Exception, None after three calls that returned and None without any
\* call when the base class has no such callable; no Exception leaves it.
C21_AbuseReturnsWhatWasRaised ==
    /\ [](/\ Len(super_calls) <= 3
          /\ super_calls = SubSeq(AbuseSchedule, 1, Len(super_calls))
          /\ sca_pc = "propagated" => sca_raised = "KeyboardInterrupt"
          /\ sca_pc # "propagated" => sca_raised = "none"
          /\ (sca_pc = "returned" /\ sca_return = PyNone)
                => \/ Len(super_calls) = 3
                   \/ super_method = "None" /\ super_calls = <<>>
          /\ (sca_pc = "returned" /\ sca_return # PyNone)
                => /\ sca_return \in {<<"exception", "TypeError">>,
                                      <<"exception", "ValueError">>}
                   /\ Len(super_calls) \in 1..3)
    /\ [][(sca_pc \in {"returned", "propagated"})
              => (super_calls' = super_calls)]_vars

\* C21 witness: the second call with the caller's arguments raised and the
\* wrong-argument call was never made.
C21_SecondCallRaised ==
    /\ sca_pc = "returned"
    /\ sca_return = <<"exception", "ValueError">>
    /\ super_calls = <<sca_args, sca_args>>
    /\ sca_args # <<>>

\* ------------------------------------- tricky_weird_cereggii_objects build
\* a string as the sequence of its pieces between underscores, so that
\* f"...{a}_{b}" is the concatenation of the pieces of a and of b
Pieces(str) ==
    CASE str = "__add__" -> <<"", "", "add", "", "">>
      [] str = "raise_ValueError" -> <<"raise", "ValueError">>
      [] str = "return_None" -> <<"return", "None">>
      [] OTHER -> <<str>>

ClassNameWithoutBehavior(base, m, b) ==
    <<"Weird", base, "Override">> \o Pieces(m)

\* class_name = f"Weird_{base_class.__name__}_Override_{method_name}_{behavior_name}"
ClassName(base, m, b) ==
    <<"Weird", base, "Override">> \o Pieces(m) \o Pieces(b)

\* instance_name = f"instance_of_{WeirdClass.__name__}"
InstanceName(triple) ==
    <<"instance", "of">> \o ClassName(triple[1], triple[2], triple[3])

\* for base_class, methods in TARGET_METHODS.items(): for method_name in
\* methods: for behavior_name, behavior_func in malicious_behaviors.items()
Triples ==
    UNION {{<<base, m, b>> : m \in TargetMethods(base), b \in Behaviors} :
           base \in AbuseBases}

\* the triple the loops come to next; its place in the order of the dict
\* literals plays no part in what the build does with it
NextTriple == CHOOSE tr \in Triples \ visited : TRUE

\* d[k] = v on a dict
DictStore(dict, k, v) ==
    [n \in DOMAIN dict \cup {k} |-> IF n = k THEN v ELSE dict[n]]

\* the module as imported up to the generation loop
CatStart ==
    /\ cat_pc = "loop"
    /\ visited = {}
    /\ could_not_instantiate = {}
    /\ tricky_weird_cereggii_objects = <<>>

\* one pass of the innermost loop: create_weird_subclass, the instantiation
\* inside try, `except Exception: print(...); continue`, the store
CatIterate ==
    /\ cat_pc = "loop"
    /\ visited # Triples
    /\ visited' = visited \cup {NextTriple}
    /\ \/ \* WeirdClass(...) raised
          /\ could_not_instantiate' = could_not_instantiate \cup {NextTriple}
          /\ UNCHANGED tricky_weird_cereggii_objects
       \/ /\ tricky_weird_cereggii_objects' =
                DictStore(tricky_weird_cereggii_objects,
                          InstanceName(NextTriple), NextTriple)
          /\ UNCHANGED could_not_instantiate
    /\ UNCHANGED <<cat_pc, nonCatVars>>

\* the loops are exhausted
CatDone ==
    /\ cat_pc = "loop"
    /\ visited = Triples
    /\ cat_pc' = "done"
    /\ UNCHANGED <<visited, could_not_instantiate,
                   tricky_weird_cereggii_objects, nonCatVars>>

CatInit == CatStart /\ EarlierIdle /\ AbuseIdle /\ StaleIdle /\ AggIdle /\
    HcbIdle /\ AgainIdle /\ RwfIdle /\ PclIdle /\ RandIdle /\ HellIdle /\
    ThkIdle /\ ChurnIdle

CatNext == CatIterate \/ CatDone

SpecCatalog == CatInit /\ [][CatNext]_vars

AccessOutcomes == {"value", "ReferenceError", "TypeError"}

\* isinstance(user_exception[0], ReferenceError)
IsReferenceError(e) == e = "ReferenceError"

\* if user_exception and not isinstance(user_exception[0], ReferenceError)
StaleFails(excs) == excs # <<>> /\ ~IsReferenceError(excs[1])

\* the test is called: handle, event and list are made, no thread runs yet
StaleStart ==
    /\ stale_pc = "start_reaper"
    /\ reaper_pc = "created"
    /\ user_pc = "created"
    /\ reaper_finished = FALSE
    /\ wait_expired = FALSE
    /\ target_collected = FALSE
    /\ access = "none"
    /\ user_exception = <<>>
    /\ stale_raised = "none"

\* reaper_thread.start()
StartReaper ==
    /\ stale_pc = "start_reaper"
    /\ stale_pc' = "start_user"
    /\ reaper_pc' = "del"
    /\ UNCHANGED <<user_pc, reaper_finished, wait_expired, target_collected,
                   access, user_exception, stale_raised, nonStaleVars>>

\* user_thread.start()
StartUser ==
    /\ stale_pc = "start_user"
    /\ stale_pc' = "join_reaper"
    /\ user_pc' = "wait"
    /\ UNCHANGED <<reaper_pc, reaper_finished, wait_expired, target_collected,
                   access, user_exception, stale_raised, nonStaleVars>>

\* reaper_thread.join(timeout=5.0): the thread has ended, or the timeout runs
\* out while it is inside gc.collect()
JoinReaper ==
    /\ stale_pc = "join_reaper"
    /\ reaper_pc \in {"done", "collect"}
    /\ stale_pc' = "join_user"
    /\ UNCHANGED <<reaper_pc, user_pc, reaper_finished, wait_expired,
                   target_collected, access, user_exception, stale_raised,
                   nonStaleVars>>

\* user_thread.join(timeout=5.0): the thread has ended, or the timeout runs
\* out while it is inside len(handle)
JoinUser ==
    /\ stale_pc = "join_user"
    /\ user_pc \in {"done", "access"}
    /\ stale_pc' = "verify"
    /\ UNCHANGED <<reaper_pc, user_pc, reaper_finished, wait_expired,
                   target_collected, access, user_exception, stale_raised,
                   nonStaleVars>>

\* the test of user_exception, raise RuntimeError(...) or return True
StaleVerify ==
    /\ stale_pc = "verify"
    /\ IF StaleFails(user_exception)
       THEN stale_pc' = "raised" /\ stale_raised' = "RuntimeError"
       ELSE stale_pc' = "returned" /\ UNCHANGED stale_raised
    /\ UNCHANGED <<reaper_pc, user_pc, reaper_finished, wait_expired,
                   target_collected, access, user_exception, nonStaleVars>>

\* reaper: del target_object
ReaperDel ==
    /\ reaper_pc = "del"
    /\ reaper_pc' = "sleep"
    /\ UNCHANGED <<stale_pc, user_pc, reaper_finished, wait_expired,
                   target_collected, access, user_exception, stale_raised,
                   nonStaleVars>>

\* reaper: time.sleep(delay_sec / 2.0)
ReaperSleep ==
    /\ reaper_pc = "sleep"
    /\ reaper_pc' = "collect"
    /\ UNCHANGED <<stale_pc, user_pc, reaper_finished, wait_expired,
                   target_collected, access, user_exception, stale_raised,
                   nonStaleVars>>

\* reaper: gc.collect()
ReaperCollect ==
    /\ reaper_pc = "collect"
    /\ target_collected' = TRUE
    /\ reaper_pc' = "set"
    /\ UNCHANGED <<stale_pc, user_pc, reaper_finished, wait_expired, access,
                   user_exception, stale_raised, nonStaleVars>>

\* reaper: reaper_finished.set()
ReaperSet ==
    /\ reaper_pc = "set"
    /\ reaper_finished' = TRUE
    /\ reaper_pc' = "done"
    /\ UNCHANGED <<stale_pc, user_pc, wait_expired, target_collected, access,
                   user_exception, stale_raised, nonStaleVars>>

\* user: reaper_finished.wait(timeout=2.0) returns, the event being set or
\* the two seconds over
UserWait ==
    /\ user_pc = "wait"
    /\ wait_expired' = ~reaper_finished
    /\ user_pc' = "access"
    /\ UNCHANGED <<stale_pc, reaper_pc, reaper_finished, target_collected,
                   access, user_exception, stale_raised, nonStaleVars>>

\* user: try: len(handle)
UserAccess ==
    /\ user_pc = "access"
    /\ access' \in AccessOutcomes
    /\ user_pc' = IF access' = "value" THEN "done" ELSE "handler"
    /\ UNCHANGED <<stale_pc, reaper_pc, reaper_finished, wait_expired,
                   target_collected, user_exception, stale_raised,
                   nonStaleVars>>

\* user: except Exception as e: user_exception.append(e)
UserRecord ==
    /\ user_pc = "handler"
    /\ user_exception' = Append(user_exception, access)
    /\ user_pc' = "done"
    /\ UNCHANGED <<stale_pc, reaper_pc, reaper_finished, wait_expired,
                   target_collected, access, stale_raised, nonStaleVars>>

StaleInit == StaleStart /\ EarlierIdle /\ AbuseIdle /\ CatIdle /\ AggIdle /\
    HcbIdle /\ AgainIdle /\ RwfIdle /\ PclIdle /\ RandIdle /\ HellIdle /\
    ThkIdle /\ ChurnIdle

StaleNext ==
    \/ StartReaper
    \/ StartUser
    \/ JoinReaper
    \/ JoinUser
    \/ StaleVerify
    \/ ReaperDel
    \/ ReaperSleep
    \/ ReaperCollect
    \/ ReaperSet
    \/ UserWait
    \/ UserAccess
    \/ UserRecord

SpecStale == StaleInit /\ [][StaleNext]_vars

\* C24: stale_handle_lifecycle_test returns True when the access through the
\* handle gave a value or raised ReferenceError and raises RuntimeError when
\* it raised anything else, and the user thread touches the handle only after
\* the reaper signalled or the wait of two seconds ran out.
C24_TrueOnlyForValueOrReferenceError ==
    /\ stale_pc = "returned" => access \in {"none", "value", "ReferenceError"}
    /\ stale_pc = "raised" => /\ stale_raised = "RuntimeError"
                              /\ access \notin {"none", "value", "ReferenceError"}
    /\ user_pc \in {"access", "handler", "done"}
          => reaper_finished \/ wait_expired

\* ------------------------------------------- tricky_cereggii_aggregator
\* _MODULE_NAMES
ModuleNames == <<"tricky_atomicint64", "tricky_atomicdict",
                 "tricky_colliding_keys">>

\* _EXPORT_MAP, flattened in the order of its two loops: module, attribute,
\* target list or variable, extraction type
ExportMap ==
    <<[module |-> "tricky_atomicint64", attr |-> "tricky_atomic_ints",
       target |-> "tricky_atomicint64_instance_names", type |-> "dict_keys"],
      [module |-> "tricky_atomicdict", attr |-> "tricky_hashable_keys",
       target |-> "tricky_hashable_key_names", type |-> "dict_keys"],
      [module |-> "tricky_atomicdict", attr |-> "tricky_atomic_dicts",
       target |-> "tricky_atomicdict_instance_names", type |-> "dict_keys"],
      [module |-> "tricky_colliding_keys", attr |-> "colliding_key_sets",
       target |-> "colliding_key_sets", type |-> "var_name"]>>

\* the lists and the variables the module starts with
ListTargets ==
    {ExportMap[k].target : k \in {n \in DOMAIN ExportMap :
                                     ExportMap[n].type = "dict_keys"}}

VarTargets ==
    {ExportMap[k].target : k \in {n \in DOMAIN ExportMap :
                                     ExportMap[n].type = "var_name"}}

\* what _try_import_and_get_attribute meets: the import raises, the module
\* has no such attribute, or the attribute is there
RetrieveOutcomes == {"import_error", "no_attribute", "ok"}

\* list(attribute_value.keys()) of an exported dict
ExportedKeys == {<<>>, <<"key_a", "key_b">>}

\* the argument generators: the list each draws from, its fallback and the
\* collection its reference names
Generators ==
    {[gen |-> "gen_tricky_atomicint64",
      names |-> "tricky_atomicint64_instance_names",
      fallback |-> "cereggii.AtomicInt64(0)",
      collection |-> "tricky_atomic_ints"],
     [gen |-> "gen_tricky_atomicdict",
      names |-> "tricky_atomicdict_instance_names",
      fallback |-> "cereggii.AtomicDict()",
      collection |-> "tricky_atomic_dicts"],
     [gen |-> "gen_tricky_hashable_key_cereggii",
      names |-> "tricky_hashable_key_names",
      fallback |-> "'fallback_key'",
      collection |-> "tricky_hashable_keys"]}

\* f"{collection}['{name}']"
Reference(collection, name) == <<collection, "['", name, "']">>

GenWithoutFallback(g, names) ==
    IF names = <<>> THEN {<<"IndexError">>}
    ELSE {<<Reference(g.collection, names[k])>> : k \in DOMAIN names}

\* if not names: return [fallback]; name = choice(names); return [f"..."]
GenReturns(g, names) ==
    IF names = <<>> THEN {<<g.fallback>>}
    ELSE {<<Reference(g.collection, names[k])>> : k \in DOMAIN names}

\* the module is being imported: nothing read, every list empty
AggStart ==
    /\ agg_pc = "snippets"
    /\ agg_i = 1
    /\ tricky_cereggii_code_snippets = <<>>
    /\ name_lists = [l \in ListTargets |-> <<>>]
    /\ var_names = [v \in VarTargets |-> "None"]
    /\ retrieved = <<>>
    /\ agg_log = {}
    /\ gen_result = <<>>

\* for name in _MODULE_NAMES: code = _read_module_source(module_path);
\* tricky_cereggii_code_snippets[f"{name}_code"] = code
AggReadSource ==
    /\ agg_pc = "snippets"
    /\ agg_i <= Len(ModuleNames)
    /\ \E code \in {"source", "None"} :
          tricky_cereggii_code_snippets' =
              DictStore(tricky_cereggii_code_snippets,
                        <<ModuleNames[agg_i], "_code">>, code)
    /\ agg_i' = agg_i + 1
    /\ UNCHANGED <<agg_pc, name_lists, var_names, retrieved, agg_log,
                   gen_result, nonAggVars>>

\* the first loop is over, the second begins
AggSnippetsDone ==
    /\ agg_pc = "snippets"
    /\ agg_i > Len(ModuleNames)
    /\ agg_pc' = "names"
    /\ agg_i' = 1
    /\ UNCHANGED <<tricky_cereggii_code_snippets, name_lists, var_names,
                   retrieved, agg_log, gen_result, nonAggVars>>

\* one pass of the inner loop over _EXPORT_MAP
AggExport ==
    /\ agg_pc = "names"
    /\ agg_i <= Len(ExportMap)
    /\ LET e == ExportMap[agg_i] IN
       \E out \in RetrieveOutcomes, is_dict \in BOOLEAN, keys \in ExportedKeys :
          /\ out = "ok" \/ (is_dict /\ keys = <<>>)
          /\ is_dict \/ keys = <<>>
          /\ retrieved' = Append(retrieved,
                                 <<IF out = "ok" /\ ~is_dict
                                      /\ e.type = "dict_keys"
                                   THEN "not_a_dict" ELSE out, keys>>)
          /\ IF out # "ok"
             THEN \* attribute_value is None
                  /\ agg_log' = agg_log \cup {e.attr}
                  /\ UNCHANGED <<name_lists, var_names>>
             ELSE IF e.type = "dict_keys"
             THEN IF is_dict
                  THEN /\ name_lists' =
                            [name_lists EXCEPT ![e.target] = @ \o keys]
                       /\ UNCHANGED <<var_names, agg_log>>
                  ELSE /\ agg_log' = agg_log \cup {e.attr}
                       /\ UNCHANGED <<name_lists, var_names>>
             ELSE /\ var_names' = [var_names EXCEPT ![e.target] = e.attr]
                  /\ UNCHANGED <<name_lists, agg_log>>
    /\ agg_i' = agg_i + 1
    /\ UNCHANGED <<agg_pc, tricky_cereggii_code_snippets, gen_result,
                   nonAggVars>>

\* the second loop is over
AggDone ==
    /\ agg_pc = "names"
    /\ agg_i > Len(ExportMap)
    /\ agg_pc' = "done"
    /\ UNCHANGED <<agg_i, tricky_cereggii_code_snippets, name_lists,
                   var_names, retrieved, agg_log, gen_result, nonAggVars>>

\* an argument generator registered by register() is called
GenCall ==
    /\ agg_pc = "done"
    /\ \E g \in Generators :
          \E r \in GenReturns(g, name_lists[g.names]) :
             gen_result' = <<g.gen, r>>
    /\ UNCHANGED <<agg_pc, agg_i, tricky_cereggii_code_snippets, name_lists,
                   var_names, retrieved, agg_log, nonAggVars>>
AggInit == AggStart /\ EarlierIdle /\ AbuseIdle /\ CatIdle /\ StaleIdle /\
    HcbIdle /\ AgainIdle /\ RwfIdle /\ PclIdle /\ RandIdle /\ HellIdle /\
    ThkIdle /\ ChurnIdle

AggNext ==
    \/ AggReadSource
    \/ AggSnippetsDone
    \/ AggExport
    \/ AggDone
    \/ GenCall

SpecAggregator == AggInit /\ [][AggNext]_vars

\* C25: a failed import or a failed read of an export is logged, leaves the
\* export's list empty (its variable None, a module's snippet None) and does
\* not keep the aggregator from going through every other module and export;
\* an argument generator gives its fallback when its list is empty and
\* otherwise a reference to a name of its list.
C25_AggregationDegradesGracefully ==
    /\ agg_pc # "snippets"
          => /\ DOMAIN tricky_cereggii_code_snippets
                   = {<<ModuleNames[k], "_code">> : k \in DOMAIN ModuleNames}
             /\ \A n \in DOMAIN tricky_cereggii_code_snippets :
                   tricky_cereggii_code_snippets[n] \in {"source", "None"}
    /\ agg_pc = "done" => Len(retrieved) = Len(ExportMap)
    /\ \A k \in DOMAIN retrieved :
          LET e == ExportMap[k] IN
          IF retrieved[k][1] = "ok"
          THEN /\ e.attr \notin agg_log
               /\ e.type = "dict_keys" => name_lists[e.target] = retrieved[k][2]
               /\ e.type = "var_name" => var_names[e.target] = e.attr
          ELSE /\ e.attr \in agg_log
               /\ e.type = "dict_keys" => name_lists[e.target] = <<>>
               /\ e.type = "var_name" => var_names[e.target] = "None"
    /\ gen_result # <<>>
          => \E g \in Generators :
                /\ g.gen = gen_result[1]
                /\ IF name_lists[g.names] = <<>>
                   THEN gen_result[2] = <<g.fallback>>
                   ELSE \E k \in DOMAIN name_lists[g.names] :
                           gen_result[2] =
                              <<Reference(g.collection, name_lists[g.names][k])>>

\* C25 witness: the first module could not be imported, a later export was
\* aggregated with its names, and the generator of the failed export gave its
\* fallback.
C25_FallbackAfterFailedImport ==
    /\ agg_pc = "done"
    /\ retrieved[1][1] = "import_error"
    /\ tricky_cereggii_code_snippets[<<"tricky_atomicint64", "_code">>] = "None"
    /\ name_lists["tricky_atomicdict_instance_names"] = <<"key_a", "key_b">>
    /\ var_names["colliding_key_sets"] = "colliding_key_sets"
    /\ gen_result = <<"gen_tricky_atomicint64", <<"cereggii.AtomicInt64(0)">>>>

\* ---------------------------------------- scenario_hammer_colliding_bucket
\* _FUSIL_PREFIX and _CEREGGII_PLUGIN_PREFIX with the names under each, a
\* dotted name being the sequence of its components
FUSIL_PREFIX == <<"fusil", "python", "samples">>

CEREGGII_PLUGIN_PREFIX == <<"fusil_cereggii_plugin", "samples">>

ModulesToPopulate ==
    <<[prefix |-> FUSIL_PREFIX, name |-> "tricky_objects"],
      [prefix |-> CEREGGII_PLUGIN_PREFIX, name |-> "tricky_atomicdict"],
      [prefix |-> CEREGGII_PLUGIN_PREFIX, name |-> "tricky_colliding_keys"]>>

\* __import__(dotted) with no fromlist imports the submodule and returns the
\* top-level package
Import(dotted) == <<dotted[1]>>

\* whether a module object has the attribute colliding_key_sets: only
\* tricky_colliding_keys defines it
HasCollidingKeySets(mod) ==
    mod = Append(CEREGGII_PLUGIN_PREFIX, "tricky_colliding_keys")

\* the values colliding_key_sets["log_size_6"] can have: generate_colliding_keys
\* returns the buckets that received a key, each with its keys
KeyLists == {<<"k1">>, <<"k1", "k2">>}

KeySets == UNION {[bs -> KeyLists] : bs \in SUBSET {0, 1}}

\* dict.get(k) with the default None
Get(dict, k) == IF k \in DOMAIN dict THEN dict[k] ELSE PyNone

\* `not x` for a dict, a list or None
Falsy(x) == x = PyNone \/ x = <<>>

\* the module is being imported; tricky_colliding_keys, if it can be
\* imported, has made its key sets
HcbStart ==
    /\ hcb_pc = "populate"
    /\ pop_i = 1
    /\ modules = <<>>
    /\ colliding_key_sets \in
          {<<>>} \cup {[n \in {"log_size_6"} |-> ks] : ks \in KeySets}
    /\ key_set = <<"unset">>
    /\ map_operations = 0
    /\ hammer_d = <<>>
    /\ deleted_set = {}
    /\ hammer_errors = 0
    /\ hcb_return = "unset"
    /\ hcb_raised = "none"

\* populate_modules: try: _MODULES[name] = __import__(prefix + name)
\* except ImportError: print(...)
PopulateModule ==
    /\ hcb_pc = "populate"
    /\ pop_i <= Len(ModulesToPopulate)
    /\ LET m == ModulesToPopulate[pop_i] IN
       \/ modules' = DictStore(modules, m.name, Import(Append(m.prefix, m.name)))
       \/ UNCHANGED modules
    /\ pop_i' = pop_i + 1
    /\ UNCHANGED <<hcb_pc, colliding_key_sets, key_set, map_operations,
                   hammer_d, deleted_set, hammer_errors, hcb_return,
                   hcb_raised, nonHcbVars>>

\* the module is imported; the scenario is called
HcbCall ==
    /\ hcb_pc = "populate"
    /\ pop_i > Len(ModulesToPopulate)
    /\ hcb_pc' = "call"
    /\ UNCHANGED <<pop_i, modules, colliding_key_sets, key_set,
                   map_operations, hammer_d, deleted_set, hammer_errors,
                   hcb_return, hcb_raised, nonHcbVars>>

\* colliding_keys_mod = _MODULES.get("tricky_colliding_keys");
\* if not colliding_keys_mod: return False
HcbGetModule ==
    /\ hcb_pc = "call"
    /\ IF Get(modules, "tricky_colliding_keys") = PyNone
       THEN hcb_pc' = "returned" /\ hcb_return' = "False"
       ELSE hcb_pc' = "key_set" /\ UNCHANGED hcb_return
    /\ UNCHANGED <<pop_i, modules, colliding_key_sets, key_set,
                   map_operations, hammer_d, deleted_set, hammer_errors,
                   hcb_raised, nonHcbVars>>

\* the elements of a list
Elements(list) == {list[n] : n \in DOMAIN list}

\* random.sample(keys_to_hammer, k=len(keys_to_hammer) // 2), as sets of the
\* keys drawn
Samples(keys_to_hammer) ==
    {ks \in SUBSET Elements(keys_to_hammer) :
        Cardinality(ks) = Len(keys_to_hammer) \div 2}

\* 1. for key in keys_to_hammer: d[key] = key;  2. for key in
\* keys_to_delete: del d[key]
Hammered(keys_to_hammer, deleted) ==
    [k \in Elements(keys_to_hammer) \ deleted |-> k]

\* 3. the ERROR lines of the verification pass: a deleted key that is found,
\* a value that is not its key, a key that should exist and is not found
VerifyErrors(dict, keys_to_hammer, deleted) ==
    Cardinality({k \in Elements(keys_to_hammer) :
                    IF k \in DOMAIN dict
                    THEN k \in deleted \/ dict[k] # k
                    ELSE k \notin deleted})

\* key_set = colliding_keys_mod.colliding_key_sets.get("log_size_6");
\* if not key_set or not key_set.get(0): return False; then the insertions,
\* deletions and lookups on keys_to_hammer = key_set[0]
HcbBody ==
    /\ hcb_pc = "key_set"
    /\ IF ~HasCollidingKeySets(modules["tricky_colliding_keys"])
       THEN /\ hcb_pc' = "raised"
            /\ hcb_raised' = "AttributeError"
            /\ UNCHANGED <<key_set, hcb_return, map_operations, hammer_d,
                           deleted_set, hammer_errors>>
       ELSE /\ key_set' = Get(colliding_key_sets, "log_size_6")
            /\ hcb_pc' = "returned"
            /\ IF Falsy(key_set') \/ Falsy(Get(key_set', 0))
               THEN /\ hcb_return' = "False"
                    /\ UNCHANGED <<map_operations, hammer_d, deleted_set,
                                   hammer_errors>>
               ELSE /\ hcb_return' = "True"
                    /\ deleted_set' \in Samples(key_set'[0])
                    /\ hammer_d' = Hammered(key_set'[0], deleted_set')
                    /\ hammer_errors' =
                          VerifyErrors(hammer_d', key_set'[0], deleted_set')
                    /\ map_operations' = 2 * Len(key_set'[0])
                                             + Cardinality(deleted_set')
            /\ UNCHANGED hcb_raised
    /\ UNCHANGED <<pop_i, modules, colliding_key_sets, nonHcbVars>>

HcbInit == HcbStart /\ EarlierIdle /\ AbuseIdle /\ CatIdle /\ StaleIdle /\
    AggIdle /\ AgainIdle /\ RwfIdle /\ PclIdle /\ RandIdle /\ HellIdle /\
    ThkIdle /\ ChurnIdle

HcbNext == PopulateModule \/ HcbCall \/ HcbGetModule \/ HcbBody

SpecHammerBucket == HcbInit /\ [][HcbNext]_vars

\* the colliding-key set for log_size_6 is missing or has no key for bucket 0
SparseKeySet ==
    \/ "log_size_6" \notin DOMAIN colliding_key_sets
    \/ 0 \notin DOMAIN colliding_key_sets["log_size_6"]

\* C26: when the colliding-key set for log_size_6 is missing or has no key
\* for bucket 0, scenario_hammer_colliding_bucket returns False, does nothing
\* on a map and raises nothing.
C26_SparseKeySetReturnsFalse ==
    SparseKeySet
       => /\ hcb_pc # "raised"
          /\ hcb_raised = "none"
          /\ map_operations = 0
          /\ hcb_pc = "returned" => hcb_return = "False"

\* ------------------------------- generate_colliding_keys, called once more
ReusedResults(prev) == prev

\* results = collections.defaultdict(list): every call starts from its own
\* empty dict, whatever an earlier call left
FreshResults(prev) == EmptyResults

\* the first call with the arguments and the hash function of KeysStart
AgainStart ==
    /\ call_no = 1
    /\ first_return = <<>>

\* the first call has ended; the function is called again with the same
\* arguments, its locals made anew
KeysCallAgain ==
    /\ call_no = 1
    /\ kpc \in {"returned", "raised"}
    /\ first_return' = <<kpc, results>>
    /\ call_no' = 2
    /\ kpc' = "idle"
    /\ i' = 0
    /\ results' = FreshResults(results)
    /\ filled_buckets' = {}
    /\ examined' = 0
    /\ broke' = FALSE
    /\ exhausted_warning' = FALSE
    /\ UNCHANGED <<dummy_dict, hashMul, hashAdd, log_size, num_buckets_to_fill,
                   keys_per_bucket, nonKeysAgainVars>>

AgainInit == KeysStart /\ AgainStart /\ ScnIdle /\ RunIdle /\ ObjStart /\
    WeirdIdle /\ AbuseIdle /\ CatIdle /\ StaleIdle /\ AggIdle /\ HcbIdle /\
    RwfIdle /\ PclIdle /\ RandIdle /\ HellIdle /\ ThkIdle /\ ChurnIdle

AgainNext == KeysNext \/ KeysCallAgain

SpecKeysTwice == AgainInit /\ [][AgainNext]_vars

C28_GroupStartsAllThenJoinsAll ==
    /\ [](scenario \in ContentionScenarios /\ mainPc # "idle" =>
            /\ DOMAIN wpc = 0..(num_threads - 1)
            /\ started <= num_threads
            /\ joined <= started
            /\ \A t \in DOMAIN wpc : (wpc[t] # "created") <=> (t < started)
            /\ (joined > 0) => (started = num_threads)
            /\ (mainPc \in {"verify", "returned", "raised"}) =>
                  /\ started = num_threads
                  /\ joined = num_threads
                  /\ \A t \in DOMAIN wpc : wpc[t] \in {"done", "died"})
    /\ [][(scenario \in ContentionScenarios /\ mainPc # "idle") =>
              /\ started' \in {started, started + 1}
              /\ \A t \in DOMAIN wpc :
                    (wpc[t] # "created") => (PcOf(t)' # "created")]_vars

\* a group of two tasks was joined after both had run
C28_TwoTasksJoined ==
    /\ scenario \in ContentionScenarios
    /\ num_threads = 2
    /\ mainPc = "verify"
    /\ joined = 2
    /\ \A t \in DOMAIN wpc : wpc[t] = "done"


\* ---------------------------------------------------------------------------
\* tricky_synergy_scenarios.scenario_concurrent_reduce_with_failures: success
\* workers reduce_sum into one key while failure workers reduce the one pooled
\* IterableRaiser, which raises ValueError after its valid yields.

MaxSuccessThreads == 2
MaxFailureThreads == 2
MaxItemsPerSuccess == 2

\* IterableRaiser.__init__: valid_yields=2
valid_yields == 2

SUCCESS_KEY == <<"success_counter">>

\* f"key_{self.yield_count}"
RaiserKey(n) == <<"key_", n>>

\* atomic_dict.get(key, default)
GetOr(dict, k, default) == IF k \in DOMAIN dict THEN dict[k] ELSE default

SuccessWorkers == 1..num_success_threads
FailureWorkers ==
    (num_success_threads + 1)..(num_success_threads + num_failure_threads)

\* success_threads | failure_threads
RwfWorkers == SuccessWorkers \cup FailureWorkers

\* A plausible slip: one key is expected whatever the success workers did.
ExpectedLenAlwaysOne(ns, ni) == 1

\* expected_len = 1 if num_success_threads > 0 and
\* num_items_per_success_thread > 0 else 0
ExpectedLen(ns, ni) == IF ns > 0 /\ ni > 0 THEN 1 ELSE 0

\* the scenario is about to be called; the pooled iterable may have been
\* advanced by an earlier use
RwfStart ==
    /\ rwf_pc = "call"
    /\ num_success_threads \in 0..MaxSuccessThreads
    /\ num_failure_threads \in 0..MaxFailureThreads
    /\ num_items_per_success_thread \in 0..MaxItemsPerSuccess
    /\ has_malicious_iterables \in BOOLEAN
    /\ reduce_subject \in {"sound", "faulty"}
    /\ atomic_dict = <<>>
    /\ yield_count \in 0..valid_yields
    /\ rwf_started = 0
    /\ rwf_wpc = [w \in RwfWorkers |-> "created"]
    /\ rwf_read = [w \in RwfWorkers |-> 0]
    /\ rwf_return = "unset"
    /\ rwf_raised = "none"

\* 1. Dependency Check; 2. atomic_dict = cereggii.AtomicDict(); 5. the two
\* ThreadSet.repeat groups are made
RwfCall ==
    /\ rwf_pc = "call"
    /\ IF ~has_malicious_iterables
       THEN /\ rwf_return' = "False"
            /\ rwf_pc' = "returned"
       ELSE /\ rwf_return' = rwf_return
            /\ rwf_pc' = IF RwfWorkers = {} THEN "verify" ELSE "start"
    /\ UNCHANGED <<num_success_threads, num_failure_threads,
                   num_items_per_success_thread, has_malicious_iterables,
                   reduce_subject, atomic_dict, yield_count, rwf_started,
                   rwf_wpc, rwf_read, rwf_raised, nonRwfVars>>

\* start_and_join: the threads are started one after the other
RwfStartThread ==
    /\ rwf_pc = "start"
    /\ rwf_started < num_success_threads + num_failure_threads
    /\ rwf_started' = rwf_started + 1
    /\ rwf_wpc' = [rwf_wpc EXCEPT ![rwf_started + 1] =
                      IF rwf_started + 1 \in SuccessWorkers
                      THEN "reduce_sum" ELSE "next"]
    /\ rwf_pc' = IF rwf_started + 1 = num_success_threads + num_failure_threads
                 THEN "join" ELSE "start"
    /\ UNCHANGED <<num_success_threads, num_failure_threads,
                   num_items_per_success_thread, has_malicious_iterables,
                   reduce_subject, atomic_dict, yield_count, rwf_read,
                   rwf_return, rwf_raised, nonRwfVars>>

\* success_worker: atomic_dict.reduce_sum(itertools.repeat((SUCCESS_KEY, 1),
\* num_items_per_success_thread)).  A sound map adds the worker's total in
\* one atomic step; a faulty one reads the value here and writes it later.
SuccessReduceSum(w) ==
    /\ w \in SuccessWorkers
    /\ rwf_wpc[w] = "reduce_sum"
    /\ IF num_items_per_success_thread = 0
       THEN /\ rwf_wpc' = [rwf_wpc EXCEPT ![w] = "done"]
            /\ UNCHANGED <<atomic_dict, rwf_read>>
       ELSE IF reduce_subject = "sound"
       THEN /\ atomic_dict' =
                  DictStore(atomic_dict, SUCCESS_KEY,
                            GetOr(atomic_dict, SUCCESS_KEY, 0)
                                + num_items_per_success_thread)
            /\ rwf_wpc' = [rwf_wpc EXCEPT ![w] = "done"]
            /\ UNCHANGED rwf_read
       ELSE /\ rwf_read' = [rwf_read EXCEPT ![w] =
                               GetOr(atomic_dict, SUCCESS_KEY, 0)]
            /\ rwf_wpc' = [rwf_wpc EXCEPT ![w] = "write"]
            /\ UNCHANGED atomic_dict
    /\ UNCHANGED <<rwf_pc, num_success_threads, num_failure_threads,
                   num_items_per_success_thread, has_malicious_iterables,
                   reduce_subject, yield_count, rwf_started, rwf_return,
                   rwf_raised, nonRwfVars>>

\* the second half of a faulty reduce_sum
SuccessWrite(w) ==
    /\ w \in SuccessWorkers
    /\ rwf_wpc[w] = "write"
    /\ atomic_dict' = DictStore(atomic_dict, SUCCESS_KEY,
                                rwf_read[w] + num_items_per_success_thread)
    /\ rwf_wpc' = [rwf_wpc EXCEPT ![w] = "done"]
    /\ UNCHANGED <<rwf_pc, num_success_threads, num_failure_threads,
                   num_items_per_success_thread, has_malicious_iterables,
                   reduce_subject, yield_count, rwf_started, rwf_read,
                   rwf_return, rwf_raised, nonRwfVars>>

\* failure_worker inside atomic_dict.reduce: IterableRaiser.__next__ tests
\* `self.yield_count < self.valid_yields`; otherwise it raises ValueError,
\* reduce fails and the worker's `except ValueError: pass` ends it
FailureNext(w) ==
    /\ w \in FailureWorkers
    /\ rwf_wpc[w] = "next"
    /\ rwf_wpc' = [rwf_wpc EXCEPT ![w] =
                      IF yield_count < valid_yields THEN "yield" ELSE "done"]
    /\ UNCHANGED <<rwf_pc, num_success_threads, num_failure_threads,
                   num_items_per_success_thread, has_malicious_iterables,
                   reduce_subject, atomic_dict, yield_count, rwf_started,
                   rwf_read, rwf_return, rwf_raised, nonRwfVars>>

\* self.yield_count += 1; return (f"key_{self.yield_count}", self.yield_count)
\* A sound reduce holds the item back until the iterable is exhausted, which
\* here never happens; a faulty one puts it into the map at once.
FailureYield(w) ==
    /\ w \in FailureWorkers
    /\ rwf_wpc[w] = "yield"
    /\ yield_count' = yield_count + 1
    /\ atomic_dict' = IF reduce_subject = "sound" THEN atomic_dict
                      ELSE DictStore(atomic_dict, RaiserKey(yield_count + 1),
                                     yield_count + 1)
    /\ rwf_wpc' = [rwf_wpc EXCEPT ![w] = "next"]
    /\ UNCHANGED <<rwf_pc, num_success_threads, num_failure_threads,
                   num_items_per_success_thread, has_malicious_iterables,
                   reduce_subject, rwf_started, rwf_read, rwf_return,
                   rwf_raised, nonRwfVars>>

\* start_and_join returns when every thread of the combined group is done
RwfJoin ==
    /\ rwf_pc = "join"
    /\ \A w \in RwfWorkers : rwf_wpc[w] = "done"
    /\ rwf_pc' = "verify"
    /\ UNCHANGED <<num_success_threads, num_failure_threads,
                   num_items_per_success_thread, has_malicious_iterables,
                   reduce_subject, atomic_dict, yield_count, rwf_started,
                   rwf_wpc, rwf_read, rwf_return, rwf_raised, nonRwfVars>>

\* 6. Verification: the two assert statements, then return True
RwfVerify ==
    /\ rwf_pc = "verify"
    /\ IF /\ GetOr(atomic_dict, SUCCESS_KEY, 0)
                = num_success_threads * num_items_per_success_thread
          /\ Cardinality(DOMAIN atomic_dict)
                = ExpectedLen(num_success_threads,
                              num_items_per_success_thread)
       THEN /\ rwf_return' = "True"
            /\ rwf_pc' = "returned"
            /\ UNCHANGED rwf_raised
       ELSE /\ rwf_raised' = "AssertionError"
            /\ rwf_pc' = "raised"
            /\ UNCHANGED rwf_return
    /\ UNCHANGED <<num_success_threads, num_failure_threads,
                   num_items_per_success_thread, has_malicious_iterables,
                   reduce_subject, atomic_dict, yield_count, rwf_started,
                   rwf_wpc, rwf_read, nonRwfVars>>

RwfInit == RwfStart /\ EarlierIdle /\ AbuseIdle /\ CatIdle /\ StaleIdle /\
    AggIdle /\ HcbIdle /\ AgainIdle /\ PclIdle /\ RandIdle /\ HellIdle /\
    ThkIdle /\ ChurnIdle

RwfNext ==
    \/ RwfCall
    \/ RwfStartThread
    \/ \E w \in DOMAIN rwf_wpc : SuccessReduceSum(w)
    \/ \E w \in DOMAIN rwf_wpc : SuccessWrite(w)
    \/ \E w \in DOMAIN rwf_wpc : FailureNext(w)
    \/ \E w \in DOMAIN rwf_wpc : FailureYield(w)
    \/ RwfJoin
    \/ RwfVerify

SpecReduceFailures == RwfInit /\ [][RwfNext]_vars

\* the map holds the success workers' total under the success key and
\* nothing else
RwfConsistent ==
    /\ GetOr(atomic_dict, SUCCESS_KEY, 0)
          = num_success_threads * num_items_per_success_thread
    /\ DOMAIN atomic_dict \subseteq {SUCCESS_KEY}
    /\ Cardinality(DOMAIN atomic_dict)
          = (IF num_success_threads > 0 /\ num_items_per_success_thread > 0
             THEN 1 ELSE 0)

\* C29: once the combined group has been joined, a map that reduces
\* atomically holds the product of success threads and items under the
\* success key and no key of a failing worker, whatever the interleaving and
\* wherever the pooled iterable stood, and the scenario returns True; the
\* scenario returns True only with the map in that state, and every other
\* state of the map ends in AssertionError.
C29_FailuresLeaveMapConsistent ==
    /\ (rwf_pc \in {"verify", "returned", "raised"}
            /\ has_malicious_iterables /\ reduce_subject = "sound")
          => (RwfConsistent /\ rwf_pc # "raised")
    /\ (rwf_return = "True") => RwfConsistent
    /\ (rwf_pc = "raised") => (rwf_raised = "AssertionError" /\ ~RwfConsistent)
    /\ (rwf_pc = "returned" /\ has_malicious_iterables)
          => (rwf_return = "True")

\* two failure workers shared the iterable next to two success workers and
\* the scenario returned True
C29_FailuresBesideSuccesses ==
    /\ rwf_return = "True"
    /\ num_success_threads = 2
    /\ num_failure_threads = 2
    /\ num_items_per_success_thread = 2
    /\ yield_count >= valid_yields
    /\ atomic_dict = DictStore(<<>>, SUCCESS_KEY, 4)


\* ---------------------------------------------------------------------------
\* tricky_python_utils_scenarios.scenario_poison_countdownlatch: for every
\* object of _TRICKY_INTS_FOR_LATCH a CountDownLatch is made from it and, if
\* that works, waiters and decrementers are run on it in one group.

MaxWaiters == 2
MaxDecrementers == 2
MaxPoisonValue == 3
MaxPoisonObjects == 2

\* an int-like object: its value, and whether its operators raise as those
\* of MaliciousInt do
PoisonObjects == [value : (-1)..MaxPoisonValue, malicious : BOOLEAN]

PoisonLists ==
    UNION {[1..n -> PoisonObjects] : n \in 0..MaxPoisonObjects}

\* the try block around cereggii.CountDownLatch(poison_object) and the print
\* with math.log10(poison_object): "Exception" and "AssertionError" send the
\* loop to the next object, "created" goes on to the stress test.  The
\* latch refuses a negative count; log10 raises ValueError for a value <= 0.
CreateOutcome(p) ==
    IF p.malicious THEN "Exception"
    ELSE IF p.value < 0 THEN "AssertionError"
    ELSE IF p.value <= 0 THEN "Exception"
    ELSE "created"

Waiters == 1..num_waiters
Decrementers == (num_waiters + 1)..(num_waiters + num_decrementers)

\* waiter | decrementer
PclWorkers == Waiters \cup Decrementers

\* the module has been imported and the scenario is about to be called
PclStart ==
    /\ pcl_pc = "call"
    /\ tricky_ints_for_latch \in PoisonLists
    /\ num_waiters \in 0..MaxWaiters
    /\ num_decrementers \in 0..MaxDecrementers
    /\ poison_i = 0
    /\ poison_latch = 0
    /\ pcl_started = 0
    /\ pcl_wpc = [w \in PclWorkers |-> "created"]
    /\ all_survived = TRUE
    /\ pcl_return = "unset"

\* if not _TRICKY_INTS_FOR_LATCH: return False;  all_survived = True
PclCall ==
    /\ pcl_pc = "call"
    /\ IF tricky_ints_for_latch = <<>>
       THEN /\ pcl_return' = "False"
            /\ pcl_pc' = "returned"
            /\ UNCHANGED poison_i
       ELSE /\ pcl_return' = pcl_return
            /\ pcl_pc' = "loop"
            /\ poison_i' = 1
    /\ UNCHANGED <<tricky_ints_for_latch, num_waiters, num_decrementers,
                   poison_latch, pcl_started, pcl_wpc, all_survived,
                   nonPclVars>>

\* for poison_object in _TRICKY_INTS_FOR_LATCH: one pass up to the making of
\* the two ThreadSet.repeat groups; return all_survived after the last
PclLoop ==
    /\ pcl_pc = "loop"
    /\ IF poison_i > Len(tricky_ints_for_latch)
       THEN /\ pcl_return' = IF all_survived THEN "True" ELSE "False"
            /\ pcl_pc' = "returned"
            /\ UNCHANGED <<poison_i, poison_latch, pcl_started, pcl_wpc>>
       ELSE IF CreateOutcome(tricky_ints_for_latch[poison_i]) # "created"
       THEN /\ poison_i' = poison_i + 1
            /\ UNCHANGED <<pcl_pc, pcl_return, poison_latch, pcl_started,
                           pcl_wpc>>
       ELSE /\ poison_latch' = tricky_ints_for_latch[poison_i].value
            /\ pcl_started' = 0
            /\ pcl_wpc' = [w \in PclWorkers |-> "created"]
            /\ pcl_pc' = IF PclWorkers = {} THEN "join" ELSE "start"
            /\ UNCHANGED <<poison_i, pcl_return>>
    /\ UNCHANGED <<tricky_ints_for_latch, num_waiters, num_decrementers,
                   all_survived, nonPclVars>>

\* (waiter | decrementer).start_and_join(): the threads are started one
\* after the other
PclStartThread ==
    /\ pcl_pc = "start"
    /\ pcl_started < num_waiters + num_decrementers
    /\ pcl_started' = pcl_started + 1
    /\ pcl_wpc' = [pcl_wpc EXCEPT ![pcl_started + 1] =
                      IF pcl_started + 1 \in Waiters
                      THEN "wait" ELSE "decrement"]
    /\ pcl_pc' = IF pcl_started + 1 = num_waiters + num_decrementers
                 THEN "join" ELSE "start"
    /\ UNCHANGED <<tricky_ints_for_latch, num_waiters, num_decrementers,
                   poison_i, poison_latch, all_survived, pcl_return,
                   nonPclVars>>

\* waiter: latch.wait() returns once the count is zero
WaiterWait(w) ==
    /\ w \in Waiters
    /\ pcl_wpc[w] = "wait"
    /\ poison_latch = 0
    /\ pcl_wpc' = [pcl_wpc EXCEPT ![w] = "done"]
    /\ UNCHANGED <<pcl_pc, tricky_ints_for_latch, num_waiters,
                   num_decrementers, poison_i, poison_latch, pcl_started,
                   all_survived, pcl_return, nonPclVars>>

\* decrementer: latch.decrement() takes one off a positive count
DecrementerDecrement(w) ==
    /\ w \in Decrementers
    /\ pcl_wpc[w] = "decrement"
    /\ poison_latch' = IF poison_latch > 0 THEN poison_latch - 1
                       ELSE poison_latch
    /\ pcl_wpc' = [pcl_wpc EXCEPT ![w] = "done"]
    /\ UNCHANGED <<pcl_pc, tricky_ints_for_latch, num_waiters,
                   num_decrementers, poison_i, pcl_started, all_survived,
                   pcl_return, nonPclVars>>

\* start_and_join returns when every thread of the combined group is done;
\* the for loop goes on to the next object
PclJoin ==
    /\ pcl_pc = "join"
    /\ \A w \in PclWorkers : pcl_wpc[w] = "done"
    /\ poison_i' = poison_i + 1
    /\ pcl_pc' = "loop"
    /\ UNCHANGED <<tricky_ints_for_latch, num_waiters, num_decrementers,
                   poison_latch, pcl_started, pcl_wpc, all_survived,
                   pcl_return, nonPclVars>>

PclInit == PclStart /\ EarlierIdle /\ AbuseIdle /\ CatIdle /\ StaleIdle /\
    AggIdle /\ HcbIdle /\ AgainIdle /\ RwfIdle /\ RandIdle /\ HellIdle /\
    ThkIdle /\ ChurnIdle

PclNext ==
    \/ PclCall
    \/ PclLoop
    \/ PclStartThread
    \/ \E w \in DOMAIN pcl_wpc : WaiterWait(w)
    \/ \E w \in DOMAIN pcl_wpc : DecrementerDecrement(w)
    \/ PclJoin

SpecPoisonLatch == PclInit /\ [][PclNext]_vars

\* Threads are scheduled fairly: as long as some thread can take a step, a
\* step is taken.
FairSpecPoisonLatch == SpecPoisonLatch /\ WF_vars(PclNext)

\* C30: under fair scheduling scenario_poison_countdownlatch returns, for
\* every list of poison objects, every initial count of a latch that was
\* made, every number of waiters and decrementers and every interleaving.
C30_PoisonLatchTerminates == <>(pcl_pc = "returned")


\* C31: in race_condition_ref_vs_gc, as long as the start gate is closed the
\* hammer thread has not entered its loop and has recorded nothing, the GC
\* thread has not dropped the owning reference, and no step touches the
\* shared reference; the gate is open only with both threads started, and
\* the stop flag is set only with the gate open.
C31_NothingBeforeTheGate ==
    /\ []((scenario = "race_condition_ref_vs_gc" /\ mainPc # "idle") =>
            /\ can_start => (started = 2)
            /\ stop_event => can_start
            /\ ~can_start =>
                  /\ wops[HammerThread] = 0
                  /\ errors = <<>>
                  /\ wpc[HammerThread] \in {"created", "running"}
                  /\ wpc[GcThread] \in {"created", "running"})
    /\ [][(scenario = "race_condition_ref_vs_gc"
              /\ mainPc \notin {"idle", "call"} /\ ~can_start)
            => (ref' = ref /\ wops' = wops /\ errors' = errors)]_vars

\* both threads acted after the gate was opened: the GC thread has dropped
\* its reference and the hammer thread is inside its loop
C31_BothRanBehindTheGate ==
    /\ scenario = "race_condition_ref_vs_gc"
    /\ can_start
    /\ wpc[GcThread] = "done"
    /\ wpc[HammerThread] = "running"
    /\ wops[HammerThread] = 1


\* ---------------------------------------------------------------------------
\* tricky_stateful_scenarios.scenario_random_ops: random operations on an
\* AtomicDict and on a standard dict, with a length comparison after each.

MaxSteps == 3

\* operations = ["setitem", "getitem", "delitem", "len"]
operations == {"setitem", "getitem", "delitem", "len"}

\* the kinds of key in _ALL_TRICKY_KEYS: two well-behaved keys, one whose
\* __hash__ raises TypeError and one whose __hash__ raises ValueError
PlainKeys == {"key_a", "key_b"}
AllTrickyKeys == PlainKeys \cup {"hash_TypeError", "hash_ValueError"}

\* what the operation on a dict with the given keys does: the exception it
\* raises, or "none"
DictRaises(keys, op, key) ==
    IF op = "len" THEN "none"
    ELSE IF key = "hash_TypeError" THEN "TypeError"
    ELSE IF key = "hash_ValueError" THEN "ValueError"
    ELSE IF op \in {"getitem", "delitem"} /\ key \notin keys THEN "KeyError"
    ELSE "none"

\* the keys of a dict after the operation
DictAfter(keys, op, key) ==
    IF DictRaises(keys, op, key) # "none" THEN keys
    ELSE IF op = "setitem" THEN keys \cup {key}
    ELSE IF op = "delitem" THEN keys \ {key}
    ELSE keys

\* the keys a faulty AtomicDict may hold after an operation that did not
\* raise: the right ones, or the old ones (the update was lost)
SubjectAfter(keys, op, key) ==
    IF ro_subject = "sound" THEN {DictAfter(keys, op, key)}
    ELSE {DictAfter(keys, op, key), keys}

\* except (KeyError, TypeError)
CaughtByRandomOps(e) == e \in {"KeyError", "TypeError"}

\* A plausible slip: the length comparison is left out.
LengthMismatchIgnored(dkeys, mkeys) == FALSE

\* if len(d) != len(model)
LengthMismatch(dkeys, mkeys) == Cardinality(dkeys) # Cardinality(mkeys)

\* the model dict after one iteration in which the AtomicDict raised e:
\* the statement on the model is skipped when d raises, and the handler
\* repeats getitem and delitem on the model
ModelAfter(e, op, key) ==
    IF e = "none" \/ op \in {"getitem", "delitem"}
    THEN DictAfter(model, op, key)
    ELSE model

\* the scenario is about to be called
RandStart ==
    /\ ro_pc = "loop"
    /\ num_steps \in 0..MaxSteps
    /\ step = 0
    /\ rand_d = {}
    /\ model = {}
    /\ ro_subject \in {"sound", "faulty"}
    /\ lens = <<>>
    /\ ro_return = "unset"
    /\ ro_raised = "none"

\* one iteration of `for step in range(num_steps)`: the operation on both
\* dicts, the exception handler and the length comparison
RandStep ==
    /\ ro_pc = "loop"
    /\ step < num_steps
    /\ \E op \in operations, key \in AllTrickyKeys :
          LET e == DictRaises(rand_d, op, key) IN
          IF e # "none" /\ ~CaughtByRandomOps(e)
          THEN /\ ro_raised' = e
               /\ ro_pc' = "raised"
               /\ step' = step + 1
               /\ UNCHANGED <<rand_d, model, lens, ro_return>>
          ELSE /\ rand_d' \in SubjectAfter(rand_d, op, key)
               /\ model' = ModelAfter(e, op, key)
               /\ step' = step + 1
               /\ lens' = Append(lens, <<Cardinality(rand_d'),
                                         Cardinality(model')>>)
               /\ IF LengthMismatch(rand_d', model')
                  THEN ro_return' = "False" /\ ro_pc' = "returned"
                  ELSE ro_return' = ro_return /\ ro_pc' = ro_pc
               /\ UNCHANGED ro_raised
    /\ UNCHANGED <<num_steps, ro_subject, nonRandVars>>

\* the loop is over: return True
RandDone ==
    /\ ro_pc = "loop"
    /\ step >= num_steps
    /\ ro_return' = "True"
    /\ ro_pc' = "returned"
    /\ UNCHANGED <<num_steps, step, rand_d, model, ro_subject, lens,
                   ro_raised, nonRandVars>>

RandInit == RandStart /\ EarlierIdle /\ AbuseIdle /\ CatIdle /\ StaleIdle /\
    AggIdle /\ HcbIdle /\ AgainIdle /\ RwfIdle /\ PclIdle /\ HellIdle /\
    ThkIdle /\ ChurnIdle

RandNext == RandStep \/ RandDone

SpecRandomOps == RandInit /\ [][RandNext]_vars

\* C32: scenario_random_ops compares the two lengths after every step it
\* completes; it returns False exactly at the first step whose lengths
\* differ and takes no step after it, it returns True only after num_steps
\* steps whose lengths all agreed, and next to a map that works the
\* reference dict holds the same keys after every step.
C32_RandomOpsStopsAtFirstMismatch ==
    /\ [](/\ (ro_pc # "raised") => (Len(lens) = step)
          /\ \A n \in 1..Len(lens) :
                (n < Len(lens)) => (lens[n][1] = lens[n][2])
          /\ (ro_return = "False") =>
                /\ lens # <<>>
                /\ lens[Len(lens)][1] # lens[Len(lens)][2]
                /\ step <= num_steps
          /\ (ro_return = "True") =>
                /\ Len(lens) = num_steps
                /\ \A n \in 1..Len(lens) : lens[n][1] = lens[n][2]
          /\ (ro_pc = "loop" /\ lens # <<>>) =>
                (lens[Len(lens)][1] = lens[Len(lens)][2])
          /\ (ro_subject = "sound") => (rand_d = model))
    /\ [][(ro_pc \in {"returned", "raised"})
              => (step' = step /\ rand_d' = rand_d /\ model' = model)]_vars

\* a faulty map lost an update at the second of three steps and the
\* scenario returned False there
C32_StoppedAtSecondStep ==
    /\ ro_return = "False"
    /\ num_steps = 3
    /\ step = 2
    /\ lens[2][1] # lens[2][2]


\* C33: when tricky_colliding_keys was imported and its log_size_6 set has
\* keys for bucket 0, scenario_hammer_colliding_bucket ends with the map
\* holding exactly the keys that were not deleted, each mapped to itself,
\* floor(n/2) keys deleted, and a verification pass that printed no error.
C33_HammerLeavesTheSurvivors ==
    (/\ hcb_pc \in {"returned", "raised"}
     /\ "tricky_colliding_keys" \in DOMAIN modules
     /\ ~SparseKeySet)
        => LET keys_to_hammer == colliding_key_sets["log_size_6"][0] IN
           /\ hcb_pc = "returned"
           /\ hcb_return = "True"
           /\ Cardinality(deleted_set) = Len(keys_to_hammer) \div 2
           /\ DOMAIN hammer_d = Elements(keys_to_hammer) \ deleted_set
           /\ \A k \in DOMAIN hammer_d : hammer_d[k] = k
           /\ hammer_errors = 0


\* ---------------------------------------------------------------------------
\* The "hell" scenarios: scenario_numeric_hell and scenario_callback_hell
\* (tricky_atomicint_scenarios.py), scenario_complex_object_lifecycle_hell
\* (tricky_atomicref_scenarios.py) and scenario_proxy_hell
\* (tricky_threadhandle_scenarios.py).  Each starts num_threads workers that
\* loop num_ops_per_thread times over one operation inside a try block.

MaxHellThreads == 2
MaxHellOps == 2

HellScenarios ==
    {"scenario_numeric_hell", "scenario_callback_hell",
     "scenario_complex_object_lifecycle_hell", "scenario_proxy_hell"}

\* how an operation inside a worker's try block can end: it returns, it
\* raises a whitelisted exception, another Exception, or an exception that
\* is no Exception
OperationOutcomes == {"ok", "ValueError", "RuntimeError", "SystemExit"}

\* _TRICKY_OBJECTS_FOR_HANDLE as the module leaves it: objects of the
\* weird-subclass catalog, or [None] when the catalog is empty, or
\* [BasicMalice()] when tricky_weird_cereggii could not be imported
HandleObjectLists(imported) ==
    IF imported THEN {<<PyObj("weird_object")>>, <<PyNone>>}
    ELSE {<<PyObj("BasicMalice")>>}

\* the guard at the head of a scenario: "run", "False" (return False) or
\* the exception it raises.  After a failed import tricky_atomicint64 is
\* the TrickyAtomicInt64Mock, which has no weird_callables; the real
\* weird_callables and _ALL_TRICKY_OBJECTS are never empty.
GuardOutcome(sc) ==
    IF sc = "scenario_callback_hell"
    THEN (IF imports_ok THEN "run" ELSE "AttributeError")
    ELSE IF sc = "scenario_proxy_hell"
    THEN (IF handle_objects = <<>> THEN "False" ELSE "run")
    ELSE "run"

\* A plausible slip: only the whitelisted exceptions are caught.
CaughtOnlyWhitelisted(e) == e = "ValueError"

\* the except clauses around the operation: every Exception is caught
\* (numeric_hell passes on its whitelist and prints the others)
CaughtByHell(e) == e \in {"ValueError", "RuntimeError"}

\* the ways one iteration of a worker's loop can go
IterationOutcomes(sc) ==
    IF sc = "scenario_numeric_hell"
    THEN OperationOutcomes \cup {"before_try"}
    ELSE IF sc = "scenario_proxy_hell"
    THEN (IF PyNone \in {handle_objects[n] : n \in DOMAIN handle_objects}
          THEN {"skip_none"} ELSE {})
         \cup (IF \E n \in DOMAIN handle_objects : handle_objects[n] # PyNone
               THEN OperationOutcomes \cup {"skip_handle"} ELSE {})
    ELSE OperationOutcomes

HellWorkers == 1..hell_num_threads

\* the module has been imported and the scenario is about to be called
HellStart ==
    /\ hell_pc = "call"
    /\ hell_scenario \in HellScenarios
    /\ imports_ok \in BOOLEAN
    /\ handle_objects \in HandleObjectLists(imports_ok)
    /\ hell_num_threads \in 0..MaxHellThreads
    /\ num_ops_per_thread \in 0..MaxHellOps
    /\ pool_created = FALSE
    /\ hell_started = 0
    /\ hell_wpc = [w \in HellWorkers |-> "created"]
    /\ iterations = [w \in HellWorkers |-> 0]
    /\ ops_attempted = [w \in HellWorkers |-> 0]
    /\ last_outcome = [w \in HellWorkers |-> "none"]
    /\ hell_return = "unset"
    /\ hell_raised = "none"

\* the guard, the set-up (ref_pool of lifecycle_hell) and
\* ThreadSet.repeat(num_threads)(worker)
HellCall ==
    /\ hell_pc = "call"
    /\ LET g == GuardOutcome(hell_scenario) IN
       /\ hell_pc' = IF g = "False" THEN "returned"
                     ELSE IF g # "run" THEN "raised"
                     ELSE IF hell_num_threads = 0 THEN "join" ELSE "start"
       /\ hell_return' = IF g = "False" THEN "False" ELSE hell_return
       /\ hell_raised' = IF g \notin {"False", "run"} THEN g ELSE hell_raised
       /\ pool_created' =
             (g = "run"
                /\ hell_scenario = "scenario_complex_object_lifecycle_hell")
    /\ UNCHANGED <<hell_scenario, imports_ok, handle_objects,
                   hell_num_threads, num_ops_per_thread, hell_started,
                   hell_wpc, iterations, ops_attempted, last_outcome,
                   nonHellVars>>

\* start_and_join: the threads are started one after the other
HellStartThread ==
    /\ hell_pc = "start"
    /\ hell_started < hell_num_threads
    /\ hell_started' = hell_started + 1
    /\ hell_wpc' = [hell_wpc EXCEPT ![hell_started + 1] = "running"]
    /\ hell_pc' = IF hell_started + 1 = hell_num_threads THEN "join"
                  ELSE "start"
    /\ UNCHANGED <<hell_scenario, imports_ok, handle_objects,
                   hell_num_threads, num_ops_per_thread, pool_created,
                   iterations, ops_attempted, last_outcome, hell_return,
                   hell_raised, nonHellVars>>

\* worker: one iteration of `for _ in range(num_ops_per_thread)`.  In
\* numeric_hell the prints before the try can raise; in proxy_hell a None
\* object and a failed ThreadHandle creation `continue` before the operation.
HellIteration(w) ==
    /\ w \in HellWorkers
    /\ hell_wpc[w] = "running"
    /\ iterations[w] < num_ops_per_thread
    /\ \E o \in IterationOutcomes(hell_scenario) :
          /\ last_outcome' = [last_outcome EXCEPT ![w] = o]
          /\ ops_attempted' =
                [ops_attempted EXCEPT ![w] =
                    IF o \in OperationOutcomes THEN @ + 1 ELSE @]
          /\ hell_wpc' =
                [hell_wpc EXCEPT ![w] =
                    IF \/ o = "before_try"
                       \/ /\ o \in OperationOutcomes \ {"ok"}
                          /\ ~CaughtByHell(o)
                    THEN "died" ELSE @]
    /\ iterations' = [iterations EXCEPT ![w] = @ + 1]
    /\ UNCHANGED <<hell_pc, hell_scenario, imports_ok, handle_objects,
                   hell_num_threads, num_ops_per_thread, pool_created,
                   hell_started, hell_return, hell_raised, nonHellVars>>

\* worker: the loop is over
HellWorkerEnd(w) ==
    /\ w \in HellWorkers
    /\ hell_wpc[w] = "running"
    /\ iterations[w] >= num_ops_per_thread
    /\ hell_wpc' = [hell_wpc EXCEPT ![w] = "done"]
    /\ UNCHANGED <<hell_pc, hell_scenario, imports_ok, handle_objects,
                   hell_num_threads, num_ops_per_thread, pool_created,
                   hell_started, iterations, ops_attempted, last_outcome,
                   hell_return, hell_raised, nonHellVars>>

\* start_and_join returns when every thread has ended; return True
HellJoin ==
    /\ hell_pc = "join"
    /\ \A w \in HellWorkers : hell_wpc[w] \in {"done", "died"}
    /\ hell_pc' = "returned"
    /\ hell_return' = "True"
    /\ UNCHANGED <<hell_scenario, imports_ok, handle_objects,
                   hell_num_threads, num_ops_per_thread, pool_created,
                   hell_started, hell_wpc, iterations, ops_attempted,
                   last_outcome, hell_raised, nonHellVars>>

HellInit == HellStart /\ EarlierIdle /\ AbuseIdle /\ CatIdle /\ StaleIdle /\
    AggIdle /\ HcbIdle /\ AgainIdle /\ RwfIdle /\ PclIdle /\ RandIdle /\
    ThkIdle /\ ChurnIdle

HellNext ==
    \/ HellCall
    \/ HellStartThread
    \/ \E w \in DOMAIN hell_wpc : HellIteration(w)
    \/ \E w \in DOMAIN hell_wpc : HellWorkerEnd(w)
    \/ HellJoin

SpecHell == HellInit /\ [][HellNext]_vars

\* C34 as stated: every worker that ran its loop to the end attempted
\* exactly num_ops_per_thread operations.
C34_EveryIterationAttemptsAnOperation ==
    \A w \in DOMAIN hell_wpc :
        (hell_wpc[w] = "done") => (ops_attempted[w] = num_ops_per_thread)

\* C34 amended: an Exception raised by the operation inside the try never
\* ends a worker: a worker ends early only by an exception from before the
\* try or by one that is no Exception, and every other worker runs exactly
\* num_ops_per_thread iterations.  An iteration attempts one operation in
\* numeric_hell, callback_hell and lifecycle_hell, and at most one in
\* proxy_hell, which skips the operation when the object is None or the
\* handle cannot be made.
C34_ExceptionsNeverEndAWorker ==
    \A w \in DOMAIN hell_wpc :
        /\ (hell_wpc[w] = "died") =>
              (last_outcome[w] \in {"before_try", "SystemExit"})
        /\ (hell_wpc[w] = "done") => (iterations[w] = num_ops_per_thread)
        /\ iterations[w] <= num_ops_per_thread
        /\ ops_attempted[w] <= iterations[w]
        /\ (hell_scenario # "scenario_proxy_hell"
               /\ last_outcome[w] # "before_try")
              => (ops_attempted[w] = iterations[w])
        /\ (hell_pc = "returned") => (hell_wpc[w] \in {"done", "died"})

\* a proxy_hell worker ran both iterations to the end: one skipped its
\* operation, the other's operation raised an exception outside the usual
\* whitelist
C34_WorkerSurvivedAndSkipped ==
    /\ hell_scenario = "scenario_proxy_hell"
    /\ hell_return = "True"
    /\ num_ops_per_thread = 2
    /\ \E w \in DOMAIN hell_wpc :
          /\ hell_wpc[w] = "done"
          /\ ops_attempted[w] = 1
          /\ last_outcome[w] = "RuntimeError"


\* C35: a scenario whose dependency is missing returns False, creates no
\* subject instance, starts no worker and does not raise.  Here for
\* scenario_callback_hell, whose dependency (tricky_atomicint64.weird_callables)
\* is missing when the module's import failed.
C35_MissingDependencyReturnsFalse ==
    (/\ hell_scenario = "scenario_callback_hell"
     /\ ~imports_ok
     /\ hell_pc # "call")
        => /\ hell_pc = "returned"
           /\ hell_return = "False"
           /\ hell_raised = "none"
           /\ hell_started = 0
           /\ ~pool_created


\* C36: the shared IterableRaiser never yields more than valid_yields items:
\* yield_count never exceeds valid_yields, also when several failure workers
\* call __next__ on the one instance concurrently.
C36_YieldCountNeverExceedsValidYields ==
    (rwf_pc # "idle") => (yield_count <= valid_yields)


\* C37: the result of generate_colliding_keys lists only bucket indices b
\* with 0 <= b < num_buckets_to_fill, every listed bucket has between 1 and
\* keys_per_bucket keys, the keys of a bucket are strictly increasing, and no
\* key appears in two buckets.
C37_ResultIsWellFormed ==
    (kpc = "returned") =>
        \A b \in DOMAIN results :
            /\ 0 <= b /\ b < num_buckets_to_fill
            /\ 1 <= Len(results[b]) /\ Len(results[b]) <= keys_per_bucket
            /\ \A j \in 1..(Len(results[b]) - 1) :
                   results[b][j] < results[b][j + 1]
            /\ \A c \in DOMAIN results \ {b} :
                   \A j \in 1..Len(results[b]) : \A k \in 1..Len(results[c]) :
                       results[b][j] # results[c][k]


\* C38: the scenario-mode runner decides a scenario's outcome only by whether
\* the call raises: a call that returns, True or False, is counted as
\* completed and never as failed, a call is counted as failed only when it
\* raised, and a name found in no registry is counted as an error while the
\* loop goes on to the next selection.
C38_OutcomeOnlyByRaising ==
    /\ [](call_result \in ScenarioReturns => run_pc = "collect")
    /\ [][(run_pc = "try") =>
             /\ (call_result' \in ScenarioReturns) =>
                   /\ completed' = completed + 1
                   /\ failed' = failed
                   /\ not_found' = not_found
             /\ (failed' # failed) => (call_result' = "none")
             /\ (not_found' # not_found) =>
                   /\ not_found' = not_found + 1
                   /\ run_pc' = "collect"
                   /\ exit_status' = -1
                   /\ completed' = completed
                   /\ failed' = failed]_vars
    /\ [][(run_pc = "collect") => (run_pc' = "select")]_vars

\* C38 witness: a call has just returned False and is counted as completed,
\* after an earlier selection whose name was in no registry.
C38_FalseCountedCompleted ==
    /\ run_pc = "collect"
    /\ call_result = "False"
    /\ completed = 1
    /\ failed = 0
    /\ not_found = 1


\* ---------------------------------------------------------------------------
\* The build of tricky_hashable_keys at the import of tricky_atomicdict.py:
\* four loops that construct the adversarial objects and store each under a
\* formatted name, the fundamental hashables, and the objects gathered from
\* the sibling modules.

\* for i in range(5)
NumUnstable == 5

\* for i in range(20)
NumUnequal == 20

\* str(i) of the loop indices
ToStr(n) ==
    <<"0", "1", "2", "3", "4", "5", "6", "7", "8", "9", "10", "11", "12",
      "13", "14", "15", "16", "17", "18", "19", "20">>[n + 1]

\* exc.__name__ of the exception classes the raisers are built with
ExcNames == <<"ValueError", "TypeError", "AttributeError", "RecursionError",
              "IndexError", "KeyError">>

\* [None, 0, 1, "not a boolean", (1, 2), AlwaysUnequalConstantHash()]
ret_vals == <<PyNone, PyInt(0), PyInt(1), <<"str", "not a boolean">>,
              <<"tuple", 1, 2>>, PyObj("AlwaysUnequalConstantHash")>>

\* type(ret_val).__name__
TypeName(v) ==
    CASE v[1] = "None" -> "NoneType"
      [] v[1] = "int" -> "int"
      [] v[1] = "str" -> "str"
      [] v[1] = "tuple" -> "tuple"
      [] v[1] = "obj" -> v[2]

\* f"eq_returns_{type(ret_val).__name__}"
WrongTypeName(n) == <<"eq_returns_", TypeName(ret_vals[n])>>

\* names a sibling module's __dict__ can hold
DepNames == {"tricky_int", "tricky_list", "_private"}

\* isinstance(obj, collections.abc.Hashable)
Hashable(name) == name # "tricky_list"

\* weird_classes_module.weird_instances
WeirdInstanceNames == {"weird_int"}

\* the fundamental edge-case hashables
FundamentalNames == {"none", "true", "false", "float_nan", "float_inf",
                     "empty_tuple", "empty_frozenset"}

\* the module has been entered and the catalog is still empty
ThkStart ==
    /\ thk_pc = "unstable"
    /\ thk_i = 0
    /\ has_deps \in BOOLEAN
    /\ tricky_obj_names \in (IF has_deps THEN SUBSET DepNames ELSE {{}})
    /\ tricky_hashable_keys = <<>>
    /\ registered = {}
    /\ made = 0

\* for i in range(5): an UnstableHash and an AlwaysEqualButRandomHash
ThkUnstableLoop ==
    /\ thk_pc = "unstable"
    /\ LET o1 == <<"UnstableHash", made + 1>>
           o2 == <<"AlwaysEqualButRandomHash", made + 2>>
       IN /\ tricky_hashable_keys' =
                DictStore(DictStore(tricky_hashable_keys,
                                    <<"unstable_hash_", ToStr(thk_i)>>, o1),
                          <<"always_equal_random_hash_", ToStr(thk_i)>>, o2)
          /\ registered' = registered \cup {o1, o2}
    /\ made' = made + 2
    /\ IF thk_i + 1 < NumUnstable
       THEN thk_i' = thk_i + 1 /\ thk_pc' = thk_pc
       ELSE thk_i' = 0 /\ thk_pc' = "unequal"
    /\ UNCHANGED <<has_deps, tricky_obj_names, nonThkVars>>

\* for i in range(20): an AlwaysUnequalConstantHash
ThkUnequalLoop ==
    /\ thk_pc = "unequal"
    /\ LET o == <<"AlwaysUnequalConstantHash", made + 1>>
       IN /\ tricky_hashable_keys' =
                DictStore(tricky_hashable_keys,
                          <<"always_unequal_constant_hash_", ToStr(thk_i)>>, o)
          /\ registered' = registered \cup {o}
    /\ made' = made + 1
    /\ IF thk_i + 1 < NumUnequal
       THEN thk_i' = thk_i + 1 /\ thk_pc' = thk_pc
       ELSE thk_i' = 0 /\ thk_pc' = "raisers"
    /\ UNCHANGED <<has_deps, tricky_obj_names, nonThkVars>>

\* for exc in [...]: a HashRaisesException and an EqRaisesException
ThkRaisersLoop ==
    /\ thk_pc = "raisers"
    /\ LET o1 == <<"HashRaisesException", made + 1>>
           o2 == <<"EqRaisesException", made + 2>>
       IN /\ tricky_hashable_keys' =
                DictStore(DictStore(tricky_hashable_keys,
                                    <<"hash_raises_", ExcNames[thk_i + 1]>>,
                                    o1),
                          <<"eq_raises_", ExcNames[thk_i + 1]>>, o2)
          /\ registered' = registered \cup {o1, o2}
    /\ made' = made + 2
    /\ IF thk_i + 1 < Len(ExcNames)
       THEN thk_i' = thk_i + 1 /\ thk_pc' = thk_pc
       ELSE thk_i' = 0 /\ thk_pc' = "wrong_type"
    /\ UNCHANGED <<has_deps, tricky_obj_names, nonThkVars>>

\* for ret_val in [...]: an EqReturnsWrongType(ret_val)
ThkWrongTypeLoop ==
    /\ thk_pc = "wrong_type"
    /\ LET o == <<"EqReturnsWrongType", made + 1>>
       IN /\ tricky_hashable_keys' =
                DictStore(tricky_hashable_keys, WrongTypeName(thk_i + 1), o)
          /\ registered' = registered \cup {o}
    /\ made' = made + 1
    /\ IF thk_i + 1 < Len(ret_vals)
       THEN thk_i' = thk_i + 1 /\ thk_pc' = thk_pc
       ELSE thk_i' = 0 /\ thk_pc' = "fundamentals"
    /\ UNCHANGED <<has_deps, tricky_obj_names, nonThkVars>>

\* tricky_hashable_keys["none"] = None ... ["empty_frozenset"] = frozenset()
ThkFundamentals ==
    /\ thk_pc = "fundamentals"
    /\ tricky_hashable_keys' =
          [n \in DOMAIN tricky_hashable_keys
                    \cup {<<"", f>> : f \in FundamentalNames} |->
              IF n \in DOMAIN tricky_hashable_keys
              THEN tricky_hashable_keys[n] ELSE <<n[2], 0>>]
    /\ thk_pc' = IF has_deps THEN "deps" ELSE "done"
    /\ UNCHANGED <<thk_i, has_deps, tricky_obj_names, registered, made,
                   nonThkVars>>

\* if _HAS_DEPS: the public hashable objects of the sibling modules, under
\* f"{source_name}_{name}"
ThkDeps ==
    /\ thk_pc = "deps"
    /\ LET gathered ==
              {<<"tricky_obj_", n>> :
                  n \in {m \in tricky_obj_names :
                            m # "_private" /\ Hashable(m)}}
              \cup {<<"weird_cls_", n>> : n \in WeirdInstanceNames}
       IN tricky_hashable_keys' =
             [n \in DOMAIN tricky_hashable_keys \cup gathered |->
                 IF n \in gathered THEN <<n[2], 0>>
                 ELSE tricky_hashable_keys[n]]
    /\ thk_pc' = "done"
    /\ UNCHANGED <<thk_i, has_deps, tricky_obj_names, registered, made,
                   nonThkVars>>

ThkInit == ThkStart /\ EarlierIdle /\ AbuseIdle /\ CatIdle /\ StaleIdle /\
    AggIdle /\ HcbIdle /\ AgainIdle /\ RwfIdle /\ PclIdle /\ RandIdle /\
    HellIdle /\ ChurnIdle

ThkNext ==
    \/ ThkUnstableLoop
    \/ ThkUnequalLoop
    \/ ThkRaisersLoop
    \/ ThkWrongTypeLoop
    \/ ThkFundamentals
    \/ ThkDeps

SpecKeyCatalog == ThkInit /\ [][ThkNext]_vars

\* C39: the build of tricky_hashable_keys never overwrites an earlier entry:
\* every adversarial object the build has constructed and stored is still in
\* the catalog, so the finished catalog holds all 48 of them under 48 names.
C39_NoEntryOverwritten ==
    /\ \A o \in registered :
          \E n \in DOMAIN tricky_hashable_keys : tricky_hashable_keys[n] = o
    /\ (thk_pc = "done") =>
          Cardinality(registered)
              = 2 * NumUnstable + NumUnequal + 2 * Len(ExcNames)
                   + Len(ret_vals)


\* ---------------------------------------------------------------------------
\* thread_churn_test: num_cycles times a fresh AtomicDict and a fresh group
\* of num_threads_per_cycle workers, started and joined by start_and_join.

MaxCycles == 2
MaxChurnThreads == 2

\* how an operation on the map can end in a worker's thread
ChurnOutcomes == {"ok", "raise", "hang"}

ChurnWorkersOf(c) == {<<c, t>> : t \in 0..(num_threads_per_cycle - 1)}

ChurnAlive == {w \in DOMAIN churn_wpc :
                  churn_wpc[w] \in {"running", "stored", "hung"}}

\* A plausible slip: the group is started but not joined.
ChurnJoinWithoutWaiting == TRUE

\* start_and_join joins every thread of the group, with no timeout
ChurnJoinReady ==
    \A w \in DOMAIN churn_wpc : churn_wpc[w] \in {"done", "died"}

\* the position of a worker after an operation that ended as `o`
AfterOperation(o, next) ==
    IF o = "ok" THEN next ELSE IF o = "raise" THEN "died" ELSE "hung"

ChurnStart ==
    /\ churn_pc = "loop"
    /\ num_cycles \in 0..MaxCycles
    /\ num_threads_per_cycle \in 0..MaxChurnThreads
    /\ churn_i = 0
    /\ churn_d = 0
    /\ churn_started = 0
    /\ churn_wpc = <<>>
    /\ map_users = <<>>
    /\ churn_return = "unset"

\* for i in range(num_cycles): d = cereggii.AtomicDict() and the decorated
\* worker, which makes the cycle's thread group
ChurnCycleBegin ==
    /\ churn_pc = "loop"
    /\ churn_i < num_cycles
    /\ churn_d' = churn_i + 1
    /\ map_users' = [m \in DOMAIN map_users \cup {churn_i + 1} |->
                        IF m \in DOMAIN map_users THEN map_users[m] ELSE {}]
    /\ churn_wpc' = [w \in DOMAIN churn_wpc \cup ChurnWorkersOf(churn_i + 1) |->
                        IF w \in DOMAIN churn_wpc THEN churn_wpc[w]
                        ELSE "created"]
    /\ churn_started' = 0
    /\ churn_pc' = IF num_threads_per_cycle = 0 THEN "join" ELSE "start"
    /\ UNCHANGED <<num_cycles, num_threads_per_cycle, churn_i, churn_return,
                   nonChurnVars>>

\* start_and_join: the threads are started one after the other
ChurnStartThread ==
    /\ churn_pc = "start"
    /\ churn_started < num_threads_per_cycle
    /\ churn_wpc' = [churn_wpc EXCEPT ![<<churn_i + 1, churn_started>>] =
                        "running"]
    /\ churn_started' = churn_started + 1
    /\ churn_pc' = IF churn_started + 1 = num_threads_per_cycle THEN "join"
                   ELSE "start"
    /\ UNCHANGED <<num_cycles, num_threads_per_cycle, churn_i, churn_d,
                   map_users, churn_return, nonChurnVars>>

\* worker: an operation on d, the map the enclosing function's variable is
\* bound to when the worker runs the statement; NameError if it is unbound
ChurnUse(w, next) ==
    /\ IF churn_d = 0
       THEN /\ churn_wpc' = [churn_wpc EXCEPT ![w] = "died"]
            /\ UNCHANGED map_users
       ELSE /\ map_users' = [map_users EXCEPT ![churn_d] = @ \cup {w[1]}]
            /\ \E o \in ChurnOutcomes :
                  churn_wpc' = [churn_wpc EXCEPT ![w] = AfterOperation(o, next)]
    /\ UNCHANGED <<churn_pc, num_cycles, num_threads_per_cycle, churn_i,
                   churn_d, churn_started, churn_return, nonChurnVars>>

\* worker: d[thread_id] = thread_id
ChurnWorkerStore(w) ==
    /\ w \in DOMAIN churn_wpc
    /\ churn_wpc[w] = "running"
    /\ ChurnUse(w, "stored")

\* worker: d.reduce_sum([(thread_id, 1)])
ChurnWorkerReduce(w) ==
    /\ w \in DOMAIN churn_wpc
    /\ churn_wpc[w] = "stored"
    /\ ChurnUse(w, "done")

\* start_and_join returns; del d; del worker; the next i
ChurnJoin ==
    /\ churn_pc = "join"
    /\ ChurnJoinReady
    /\ churn_d' = 0
    /\ churn_i' = churn_i + 1
    /\ churn_pc' = "loop"
    /\ UNCHANGED <<num_cycles, num_threads_per_cycle, churn_started, churn_wpc,
                   map_users, churn_return, nonChurnVars>>

\* return True  # Survived the churn
ChurnReturn ==
    /\ churn_pc = "loop"
    /\ churn_i >= num_cycles
    /\ churn_pc' = "returned"
    /\ churn_return' = "True"
    /\ UNCHANGED <<num_cycles, num_threads_per_cycle, churn_i, churn_d,
                   churn_started, churn_wpc, map_users, nonChurnVars>>

ChurnInit == ChurnStart /\ EarlierIdle /\ AbuseIdle /\ CatIdle /\
    StaleIdle /\ AggIdle /\ HcbIdle /\ AgainIdle /\ RwfIdle /\ PclIdle /\
    RandIdle /\ HellIdle /\ ThkIdle

ChurnNext ==
    \/ ChurnCycleBegin
    \/ ChurnStartThread
    \/ \E w \in DOMAIN churn_wpc : ChurnWorkerStore(w)
    \/ \E w \in DOMAIN churn_wpc : ChurnWorkerReduce(w)
    \/ ChurnJoin
    \/ ChurnReturn

SpecChurn == ChurnInit /\ [][ChurnNext]_vars

\* C40: thread_churn_test runs its cycles strictly one after another: when
\* the map and the workers of a cycle are created no worker of an earlier
\* cycle is alive, so at most num_threads_per_cycle workers are alive at any
\* time, all of the current cycle; each map is used only by the workers of
\* its own cycle; and the test that returns has run exactly num_cycles
\* cycles, each with its own map.
C40_CyclesOneAfterAnother ==
    /\ [](churn_pc # "idle" =>
            /\ Cardinality(ChurnAlive) <= num_threads_per_cycle
            /\ \A w \in ChurnAlive : w[1] = churn_i + 1 /\ w[1] = churn_d
            /\ \A m \in DOMAIN map_users : map_users[m] \subseteq {m}
            /\ DOMAIN map_users = 1..(IF churn_pc \in {"start", "join"}
                                      THEN churn_i + 1 ELSE churn_i)
            /\ churn_i <= num_cycles
            /\ (churn_pc = "returned") =>
                  /\ churn_i = num_cycles
                  /\ churn_return = "True"
                  /\ DOMAIN churn_wpc =
                        UNION {ChurnWorkersOf(c) : c \in 1..num_cycles})
    /\ [][(churn_pc # "idle" /\ churn_d' # churn_d /\ churn_d' # 0) =>
             (ChurnAlive = {} /\ churn_d' = churn_i + 1)]_vars

\* C40 witness: the second cycle's workers are running on the second map
\* after both workers of the first cycle used the first.
C40_SecondCycleRunning ==
    /\ churn_i = 1
    /\ churn_d = 2
    /\ map_users[1] = {1}
    /\ map_users[2] = {2}
    /\ Cardinality(ChurnAlive) = 2

====
